---------------------------- MODULE Spec2Model ----------------------------
(***************************************************************************)
(* qlog: a terminal log viewer.  This module models                        *)
(*   - the Boyer-Moore-Horspool matcher        (src/src/model/filter.rs)   *)
(*   - Filter / FilterGroup / FilterSet and FilterRule / FilterList        *)
(*                                              (src/src/model/filter.rs)  *)
(*   - the App state machine: store, filtered view, key handling and the   *)
(*     search session                           (src/src/app.rs)           *)
(*                                                                         *)
(* Conventions.  A byte is a number in 0..255 and a byte string is a       *)
(* sequence of bytes.  A Rust String is a sequence of chars (code points); *)
(* Utf8 gives its bytes.  Positions keep the source's 0-based numbering:   *)
(* At(s, i) is s[i] of the source.  Option<T> is a sequence of length at   *)
(* most one: None is <<>> and Some(x) is <<x>>.                            *)
(***************************************************************************)
EXTENDS Integers, Sequences, FiniteSets, TLC

VARIABLES
    \* ---- BMHMatcher exercised as a pure function (SpecBMH) ----
    m_pattern,      \* the pattern bytes given to BMHMatcher::new
    m_text,         \* the haystack
    m_done,         \* which of find / find_all / contains have been applied
    r_find,         \* result of find       (Option<usize>)
    r_find_all,     \* result of find_all   (Vec<(usize, usize)>)
    r_contains,     \* result of contains   (bool)
    \* ---- case folding of a rule / a search query (SpecFold) ----
    fold_text,      \* the pattern text of the rule, or the search query
    fold_line,      \* the raw bytes of a line
    fold_done,      \* which of the two tests have been applied
    r_rule,         \* FilterRule::new(fold_text, _).matches(fold_line)
    r_search,       \* the spans the search matcher finds in the line
    \* ---- a FilterList object (SpecFilterList) ----
    fl_includes,    \* FilterList::includes
    fl_excludes,    \* FilterList::excludes
    fl_op,          \* the last operation applied to the list
    fl_line,        \* the argument of the matches call, when that is the last operation
    fl_result,      \* the result of the matches call, when that is the last operation
    \* ---- the App (Spec); the fields of struct App, app.rs:62-111 ----
    storage,            \* Option<LogStorage>: the lines of the store, in order
    filtered_indices,   \* Vec<usize>
    filters,            \* FilterSet: the groups, each the Vec of its filters
    mode,               \* Mode
    should_quit,        \* bool
    scroll_offset,      \* usize
    horizontal_scroll,  \* usize
    selected_line,      \* usize
    loading_status,     \* LoadingStatus
    log_receiver,       \* Option<Receiver<LogStorage>>: TRUE when there is one
    channel,            \* the stores sent on the channel and not yet received
    selected_group,     \* usize
    selected_filter,    \* usize
    input_buffer,       \* String
    pending_new_group,  \* bool
    wrap_mode,          \* bool
    viewport_height,    \* Cell<usize>
    viewport_width,     \* Cell<usize>
    search_query,       \* Option<String>
    search_state,       \* Option<SearchState>
    panicked,           \* TRUE once an operation has panicked
    last                \* history: what the last operation was and what it found

bmh_vars == <<m_pattern, m_text, m_done, r_find, r_find_all, r_contains>>
fold_vars == <<fold_text, fold_line, fold_done, r_rule, r_search>>
fl_vars == <<fl_includes, fl_excludes, fl_op, fl_line, fl_result>>

app_vars == <<storage, filtered_indices, filters, mode, should_quit, scroll_offset,
              horizontal_scroll, selected_line, loading_status, log_receiver, channel,
              selected_group, selected_filter, input_buffer, pending_new_group,
              wrap_mode, viewport_height, viewport_width, search_query, search_state,
              panicked, last>>

vars == <<bmh_vars, fold_vars, fl_vars, app_vars>>

-----------------------------------------------------------------------------
(* Basic data *)

Byte == 0..255

None == <<>>
Some(x) == <<x>>

At(s, i) == s[i + 1]

\* All sequences over S of length at most n.
RECURSIVE SeqsUpTo(_, _)
SeqsUpTo(S, n) ==
    IF n = 0 THEN {<<>>}
    ELSE LET shorter == SeqsUpTo(S, n - 1)
         IN shorter \cup {Append(s, x) : s \in {t \in shorter : Len(t) = n - 1}, x \in S}

-----------------------------------------------------------------------------
(* BMHMatcher, filter.rs:15-147 *)

\* A loop of BMHMatcher::new that measures the skip from one past the end.
RECURSIVE SkipLoopPastEnd(_, _, _)
SkipLoopPastEnd(table, pattern, i) ==
    IF i >= Len(pattern) - 1 THEN table
    ELSE SkipLoopPastEnd([table EXCEPT ![At(pattern, i)] = Len(pattern) - i],
                         pattern, i + 1)

\* The loop of BMHMatcher::new: for i in 0..pattern_len - 1.
RECURSIVE SkipLoop(_, _, _)
SkipLoop(table, pattern, i) ==
    IF i >= Len(pattern) - 1 THEN table
    ELSE SkipLoop([table EXCEPT ![At(pattern, i)] = Len(pattern) - 1 - i],
                  pattern, i + 1)

BMHMatcher_new(pattern) ==
    LET pattern_len == Len(pattern)
        full == [b \in Byte |-> pattern_len]
    IN [pattern     |-> pattern,
        skip_table  |-> IF pattern_len > 0 THEN SkipLoop(full, pattern, 0) ELSE full,
        pattern_len |-> pattern_len]

\* A comparison loop that stops before pattern[0]: the first byte of the
\* window is never compared.
RECURSIVE WindowMatchesSkipFirst(_, _, _, _)
WindowMatchesSkipFirst(m, text, pos, i) ==
    IF i <= 1 THEN TRUE
    ELSE IF At(text, pos - (m.pattern_len - 1 - (i - 1))) # At(m.pattern, i - 1)
         THEN FALSE
         ELSE WindowMatchesSkipFirst(m, text, pos, i - 1)

\* The backward comparison loop `while i > 0 { i -= 1; if text[..] != pattern[i]
\* { matched = false; break } }`; i is the value before the decrement and the
\* result is `matched`.
RECURSIVE WindowMatches(_, _, _, _)
WindowMatches(m, text, pos, i) ==
    IF i = 0 THEN TRUE
    ELSE IF At(text, pos - (m.pattern_len - 1 - (i - 1))) # At(m.pattern, i - 1)
         THEN FALSE
         ELSE WindowMatches(m, text, pos, i - 1)

\* The single-byte fast path of find: first i >= from with text[i] = byte.
RECURSIVE FindByte(_, _, _)
FindByte(byte, text, i) ==
    IF i >= Len(text) THEN None
    ELSE IF At(text, i) = byte THEN Some(i)
    ELSE FindByte(byte, text, i + 1)

\* The scan loop of find: `while pos < text.len()`.
RECURSIVE FindLoop(_, _, _)
FindLoop(m, text, pos) ==
    IF pos >= Len(text) THEN None
    ELSE IF WindowMatches(m, text, pos, m.pattern_len)
         THEN Some(pos - (m.pattern_len - 1))
         ELSE FindLoop(m, text, pos + m.skip_table[At(text, pos)])

\* find that answers None for the empty pattern.
BMH_findEmptyNone(m, text) ==
    IF m.pattern_len = 0 THEN None
    ELSE IF m.pattern_len > Len(text) THEN None
    ELSE IF m.pattern_len = 1 THEN FindByte(At(m.pattern, 0), text, 0)
    ELSE FindLoop(m, text, m.pattern_len - 1)

BMH_find(m, text) ==
    IF m.pattern_len = 0 THEN Some(0)
    ELSE IF m.pattern_len > Len(text) THEN None
    ELSE IF m.pattern_len = 1 THEN FindByte(At(m.pattern, 0), text, 0)
    ELSE FindLoop(m, text, m.pattern_len - 1)

BMH_contains(m, text) == BMH_find(m, text) # None

\* The single-byte fast path of find_all.
RECURSIVE FindAllByte(_, _, _, _)
FindAllByte(byte, text, i, matches) ==
    IF i >= Len(text) THEN matches
    ELSE FindAllByte(byte, text, i + 1,
                     IF At(text, i) = byte THEN Append(matches, <<i, i + 1>>)
                     ELSE matches)

\* A scan loop that resumes after the end of a match instead of one byte on.
RECURSIVE FindAllLoopNoOverlap(_, _, _, _)
FindAllLoopNoOverlap(m, text, pos, matches) ==
    IF pos >= Len(text) THEN matches
    ELSE IF WindowMatches(m, text, pos, m.pattern_len)
         THEN LET start == pos - (m.pattern_len - 1)
              IN FindAllLoopNoOverlap(m, text, pos + m.pattern_len,
                                      Append(matches, <<start, start + m.pattern_len>>))
         ELSE FindAllLoopNoOverlap(m, text, pos + m.skip_table[At(text, pos)], matches)

\* The scan loop of find_all.
RECURSIVE FindAllLoop(_, _, _, _)
FindAllLoop(m, text, pos, matches) ==
    IF pos >= Len(text) THEN matches
    ELSE IF WindowMatches(m, text, pos, m.pattern_len)
         THEN LET start == pos - (m.pattern_len - 1)
              IN FindAllLoop(m, text, pos + 1,
                             Append(matches, <<start, start + m.pattern_len>>))
         ELSE FindAllLoop(m, text, pos + m.skip_table[At(text, pos)], matches)

BMH_find_all(m, text) ==
    IF m.pattern_len = 0 THEN <<>>
    ELSE IF m.pattern_len > Len(text) THEN <<>>
    ELSE IF m.pattern_len = 1 THEN FindAllByte(At(m.pattern, 0), text, 0, <<>>)
    ELSE FindAllLoop(m, text, m.pattern_len - 1, <<>>)

-----------------------------------------------------------------------------
(* Strings and case folding *)

\* The UTF-8 encoding of one char (code points below 0x800).
Utf8Char(c) ==
    IF c < 128 THEN <<c>> ELSE <<192 + (c \div 64), 128 + (c % 64)>>

\* str::bytes / String::into_bytes: the UTF-8 bytes of a string.
RECURSIVE Utf8(_)
Utf8(text) ==
    IF text = <<>> THEN <<>> ELSE Utf8Char(Head(text)) \o Utf8(Tail(text))

\* u8::is_ascii_uppercase
is_ascii_uppercase(b) == b >= 65 /\ b <= 90

\* FilterRule::ascii_lower / Filter::ascii_lower / u8::to_ascii_lowercase
ascii_lower(b) == IF is_ascii_uppercase(b) THEN b + 32 ELSE b

\* The line lowercased into the scratch buffer, byte by byte.
LowerBuf(bytes) == [i \in 1..Len(bytes) |-> ascii_lower(bytes[i])]

\* char::to_lowercase for code points below 0x100: the ASCII capitals and the
\* Latin-1 capitals U+00C0..U+00DE (but U+00D7, the multiplication sign) map
\* to the code point 32 above.
CharToLowercase(c) ==
    IF (c >= 65 /\ c <= 90) \/ (c >= 192 /\ c <= 222 /\ c # 215) THEN c + 32 ELSE c

\* str::to_lowercase
to_lowercase(text) == [i \in 1..Len(text) |-> CharToLowercase(text[i])]

\* Filter::to_lower_bytes: the bytes of the text, ASCII capitals lowercased.
to_lower_bytes(text) == LowerBuf(Utf8(text))

\* The bytes the matcher of a FilterRule / of a search session is built from:
\* `pattern.to_lowercase().into_bytes()`.
PatternLower(pattern) == Utf8(to_lowercase(pattern))

\* char::is_whitespace for code points below 0x100.
is_whitespace(c) == c \in {9, 10, 11, 12, 13, 32, 133, 160}

\* str::trim: leading and trailing whitespace removed.
RECURSIVE trim_start(_)
trim_start(text) ==
    IF text # <<>> /\ is_whitespace(Head(text)) THEN trim_start(Tail(text)) ELSE text

RECURSIVE trim_end(_)
trim_end(text) ==
    IF text # <<>> /\ is_whitespace(text[Len(text)])
    THEN trim_end(SubSeq(text, 1, Len(text) - 1))
    ELSE text

trim(text) == trim_end(trim_start(text))

\* The number of bytes of a char in UTF-8 (code points below 0x10000).
Utf8Len(c) == IF c < 128 THEN 1 ELSE IF c < 2048 THEN 2 ELSE 3

\* String::from_utf8_lossy for bytes below 0xE0: an ASCII byte is a char, a
\* lead byte 0xC2..0xDF followed by a continuation byte 0x80..0xBF is a
\* two-byte char, and every other byte becomes U+FFFD (65533).
RECURSIVE from_utf8_lossy(_)
from_utf8_lossy(bytes) ==
    IF bytes = <<>> THEN <<>>
    ELSE LET b == bytes[1]
         IN IF b < 128 THEN <<b>> \o from_utf8_lossy(Tail(bytes))
            ELSE IF /\ b >= 194 /\ b <= 223
                    /\ Len(bytes) >= 2 /\ bytes[2] >= 128 /\ bytes[2] <= 191
                 THEN <<(b - 192) * 64 + (bytes[2] - 128)>>
                          \o from_utf8_lossy(Tail(Tail(bytes)))
                 ELSE <<65533>> \o from_utf8_lossy(Tail(bytes))

\* str::len: the length of a string in bytes.
RECURSIVE StrLen(_)
StrLen(text) == IF text = <<>> THEN 0 ELSE Utf8Len(Head(text)) + StrLen(Tail(text))

\* The byte index at which the k-th char (0-based) of the string starts.
CharStart(text, k) == StrLen(SubSeq(text, 1, k))

\* str::is_char_boundary
is_char_boundary(text, index) ==
    \/ index = StrLen(text)
    \/ \E k \in 0..(Len(text) - 1) : CharStart(text, k) = index

\* byte_to_char_offset (app.rs): the number of chars that start before the
\* byte offset.
byte_to_char_offset(text, byte_offset) ==
    Cardinality({k \in 0..(Len(text) - 1) : CharStart(text, k) < byte_offset})

\* usize::saturating_sub
saturating_sub(x, y) == IF x > y THEN x - y ELSE 0

Min(x, y) == IF x < y THEN x ELSE y
Max(x, y) == IF x > y THEN x ELSE y

-----------------------------------------------------------------------------
(* Filter, FilterGroup and FilterSet, filter.rs:149-461 *)

\* Filter::new.  The matcher is a function of cached_lower and is built from
\* it where it is used.
Filter_new(text) ==
    [text |-> text, cached_lower |-> to_lower_bytes(text), enabled |-> TRUE]

Filter_toggle(filter) == [filter EXCEPT !.enabled = ~@]

Filter_matches(filter, line_bytes) ==
    IF ~filter.enabled \/ filter.cached_lower = <<>> THEN TRUE
    ELSE IF Len(filter.cached_lower) > Len(line_bytes) THEN FALSE
    ELSE BMH_contains(BMHMatcher_new(filter.cached_lower), LowerBuf(line_bytes))

\* A group loop that asks every filter to match.
RECURSIVE GroupLoopAll(_, _, _)
GroupLoopAll(group, line_bytes, i) ==
    IF i >= Len(group) THEN TRUE
    ELSE IF ~Filter_matches(At(group, i), line_bytes) THEN FALSE
    ELSE GroupLoopAll(group, line_bytes, i + 1)

\* `for filter in &self.filters { if filter.matches(..) { return true } } false`
RECURSIVE GroupLoop(_, _, _)
GroupLoop(group, line_bytes, i) ==
    IF i >= Len(group) THEN FALSE
    ELSE IF Filter_matches(At(group, i), line_bytes) THEN TRUE
    ELSE GroupLoop(group, line_bytes, i + 1)

\* A FilterGroup is the Vec of its filters.
FilterGroup_matches(group, line_bytes) ==
    IF group = <<>> THEN TRUE ELSE GroupLoop(group, line_bytes, 0)

\* `for group in &self.groups { if !group.matches(..) { return false } } true`
RECURSIVE SetLoop(_, _, _)
SetLoop(groups, line_bytes, i) ==
    IF i >= Len(groups) THEN TRUE
    ELSE IF ~FilterGroup_matches(At(groups, i), line_bytes) THEN FALSE
    ELSE SetLoop(groups, line_bytes, i + 1)

\* A FilterSet is the Vec of its groups.
FilterSet_matches(groups, line_bytes) ==
    IF groups = <<>> THEN TRUE ELSE SetLoop(groups, line_bytes, 0)

-----------------------------------------------------------------------------
(* FilterRule and FilterList, filter.rs:463-621 *)

\* FilterRule::new.  The matcher is a function of its pattern bytes; the
\* record keeps those bytes and the matcher is built from them where used.
FilterRule_new(pattern, kind) ==
    [pattern |-> pattern, kind |-> kind, matcher_pattern |-> PatternLower(pattern)]

FilterRule_matches(rule, text) ==
    BMH_contains(BMHMatcher_new(rule.matcher_pattern), LowerBuf(text))

FilterList_new == [includes |-> <<>>, excludes |-> <<>>]

FilterList_add_include(list, pattern) ==
    [list EXCEPT !.includes = Append(@, FilterRule_new(pattern, "Include"))]

FilterList_add_exclude(list, pattern) ==
    [list EXCEPT !.excludes = Append(@, FilterRule_new(pattern, "Exclude"))]

\* Vec::remove(index): the element at the 0-based index is taken out.
VecRemove(v, index) == SubSeq(v, 1, index) \o SubSeq(v, index + 2, Len(v))

FilterList_remove_include(list, index) ==
    IF index < Len(list.includes)
    THEN [list EXCEPT !.includes = VecRemove(@, index)]
    ELSE list

FilterList_remove_exclude(list, index) ==
    IF index < Len(list.excludes)
    THEN [list EXCEPT !.excludes = VecRemove(@, index)]
    ELSE list

FilterList_clear(list) == [list EXCEPT !.includes = <<>>, !.excludes = <<>>]

\* `for include in &self.includes { if !include.matches(text) { return false } }`:
\* TRUE when the loop from index i on runs to its end.
RECURSIVE IncludesLoop(_, _, _)
IncludesLoop(includes, text, i) ==
    IF i >= Len(includes) THEN TRUE
    ELSE IF ~FilterRule_matches(At(includes, i), text) THEN FALSE
    ELSE IncludesLoop(includes, text, i + 1)

\* An excludes loop that rejects a line only when the last exclude matches it.
RECURSIVE ExcludesLoopLastOnly(_, _, _)
ExcludesLoopLastOnly(excludes, text, i) ==
    IF i >= Len(excludes) THEN TRUE
    ELSE IF i = Len(excludes) - 1 /\ FilterRule_matches(At(excludes, i), text) THEN FALSE
    ELSE ExcludesLoopLastOnly(excludes, text, i + 1)

\* `for exclude in &self.excludes { if exclude.matches(text) { return false } }`
RECURSIVE ExcludesLoop(_, _, _)
ExcludesLoop(excludes, text, i) ==
    IF i >= Len(excludes) THEN TRUE
    ELSE IF FilterRule_matches(At(excludes, i), text) THEN FALSE
    ELSE ExcludesLoop(excludes, text, i + 1)

FilterList_matches(list, text) ==
    IF ~IncludesLoop(list.includes, text, 0) THEN FALSE
    ELSE IF ~ExcludesLoop(list.excludes, text, 0) THEN FALSE
    ELSE TRUE

\* The matcher a search session is built with (App::init_search_state):
\* `query.to_lowercase()` and its bytes.
SearchMatcherPattern(query) == PatternLower(query)

\* The spans of the query in one line, as compute_total_matches,
\* get_match_position and get_line_matches compute them: find_all over the
\* line's bytes lowercased with u8::to_ascii_lowercase.
LineMatches(matcher_pattern, line) ==
    BMH_find_all(BMHMatcher_new(matcher_pattern), LowerBuf(line))

-----------------------------------------------------------------------------
(* The parts of the state a specification does not use stay as constructed. *)

BmhIdle ==
    /\ m_pattern = <<>>
    /\ m_text = <<>>
    /\ m_done = {}
    /\ r_find = None
    /\ r_find_all = <<>>
    /\ r_contains = FALSE

FoldIdle ==
    /\ fold_text = <<>>
    /\ fold_line = <<>>
    /\ fold_done = {}
    /\ r_rule = FALSE
    /\ r_search = <<>>

FlIdle ==
    /\ fl_includes = <<>>
    /\ fl_excludes = <<>>
    /\ fl_op = "new"
    /\ fl_line = <<>>
    /\ fl_result = TRUE

\* App::new(), app.rs:114-142, and a history that records no operation.
\* Left out of the model, as no operation modelled here reads them:
\* status_message, visual_cache, config, selection and clipboard.
App_new ==
    [storage           |-> None,
     filtered_indices  |-> <<>>,
     filters           |-> <<>>,
     mode              |-> "Normal",
     should_quit       |-> FALSE,
     scroll_offset     |-> 0,
     horizontal_scroll |-> 0,
     selected_line     |-> 0,
     loading_status    |-> [tag |-> "Idle"],
     log_receiver      |-> FALSE,
     selected_group    |-> 0,
     selected_filter   |-> 0,
     input_buffer      |-> <<>>,
     pending_new_group |-> FALSE,
     wrap_mode         |-> TRUE,
     viewport_height   |-> 20,
     viewport_width    |-> 80,
     search_query      |-> None,
     search_state      |-> None,
     panicked          |-> FALSE]

\* The App as one record, and the step that installs a record as the next state.
app ==
    [storage           |-> storage,
     filtered_indices  |-> filtered_indices,
     filters           |-> filters,
     mode              |-> mode,
     should_quit       |-> should_quit,
     scroll_offset     |-> scroll_offset,
     horizontal_scroll |-> horizontal_scroll,
     selected_line     |-> selected_line,
     loading_status    |-> loading_status,
     log_receiver      |-> log_receiver,
     selected_group    |-> selected_group,
     selected_filter   |-> selected_filter,
     input_buffer      |-> input_buffer,
     pending_new_group |-> pending_new_group,
     wrap_mode         |-> wrap_mode,
     viewport_height   |-> viewport_height,
     viewport_width    |-> viewport_width,
     search_query      |-> search_query,
     search_state      |-> search_state,
     panicked          |-> panicked]

AppIs(a) ==
    /\ storage = a.storage
    /\ filtered_indices = a.filtered_indices
    /\ filters = a.filters
    /\ mode = a.mode
    /\ should_quit = a.should_quit
    /\ scroll_offset = a.scroll_offset
    /\ horizontal_scroll = a.horizontal_scroll
    /\ selected_line = a.selected_line
    /\ loading_status = a.loading_status
    /\ log_receiver = a.log_receiver
    /\ selected_group = a.selected_group
    /\ selected_filter = a.selected_filter
    /\ input_buffer = a.input_buffer
    /\ pending_new_group = a.pending_new_group
    /\ wrap_mode = a.wrap_mode
    /\ viewport_height = a.viewport_height
    /\ viewport_width = a.viewport_width
    /\ search_query = a.search_query
    /\ search_state = a.search_state
    /\ panicked = a.panicked

\* The history of the last operation: whether it ran update_filtered_logs,
\* whether it did so right after an operation that did, on the same store
\* and filters, whether it was given an empty search query, and whether a
\* search session existed when it changed the filter set or was given an
\* empty query.
NoHistory ==
    [refreshed |-> FALSE, repeated |-> FALSE, empty_query |-> FALSE,
     had_search |-> FALSE]

AppIdle ==
    /\ AppIs(App_new)
    /\ channel = <<>>
    /\ last = NoHistory

-----------------------------------------------------------------------------
(* SpecBMH: the matcher applied to every pattern and haystack of bounded   *)
(* length over a three-letter alphabet.                                    *)

MaxPatternLen == 3
MaxTextLen == 5
BmhAlphabet == {97, 98, 99}

BmhInit ==
    /\ m_pattern \in SeqsUpTo(BmhAlphabet, MaxPatternLen)
    /\ m_text \in SeqsUpTo(BmhAlphabet, MaxTextLen)
    /\ m_done = {}
    /\ r_find = None
    /\ r_find_all = <<>>
    /\ r_contains = FALSE
    /\ FoldIdle
    /\ FlIdle
    /\ AppIdle

BmhFind ==
    /\ "find" \notin m_done
    /\ m_done' = m_done \cup {"find"}
    /\ r_find' = BMH_find(BMHMatcher_new(m_pattern), m_text)
    /\ UNCHANGED <<m_pattern, m_text, r_find_all, r_contains, fold_vars, fl_vars, app_vars>>

BmhFindAll ==
    /\ "find_all" \notin m_done
    /\ m_done' = m_done \cup {"find_all"}
    /\ r_find_all' = BMH_find_all(BMHMatcher_new(m_pattern), m_text)
    /\ UNCHANGED <<m_pattern, m_text, r_find, r_contains, fold_vars, fl_vars, app_vars>>

BmhContains ==
    /\ "contains" \notin m_done
    /\ m_done' = m_done \cup {"contains"}
    /\ r_contains' = BMH_contains(BMHMatcher_new(m_pattern), m_text)
    /\ UNCHANGED <<m_pattern, m_text, r_find, r_find_all, fold_vars, fl_vars, app_vars>>

BmhNext == BmhFind \/ BmhFindAll \/ BmhContains

SpecBMH == BmhInit /\ [][BmhNext]_vars

-----------------------------------------------------------------------------
(* Reference notions for the matcher claims *)

\* The positions s at which P occurs in H.
Occurrences(P, H) ==
    {s \in 0..(Len(H) - Len(P)) : SubSeq(H, s + 1, s + Len(P)) = P}

\* C1: find_all returns exactly the pairs (s, s+|P|) of the occurrences of P in
\* H, overlapping ones included, in strictly ascending order of s; and nothing
\* when P is empty or longer than H.
C1_FindAllExact ==
    "find_all" \in m_done =>
        IF Len(m_pattern) = 0 \/ Len(m_pattern) > Len(m_text)
        THEN r_find_all = <<>>
        ELSE /\ {r_find_all[k] : k \in 1..Len(r_find_all)}
                    = {<<s, s + Len(m_pattern)>> : s \in Occurrences(m_pattern, m_text)}
             /\ \A k \in 1..(Len(r_find_all) - 1) :
                    r_find_all[k][1] < r_find_all[k + 1][1]

\* C1 witness: find_all has reported two overlapping occurrences.
C1_Witness ==
    /\ "find_all" \in m_done
    /\ Len(m_pattern) >= 2
    /\ \E k \in 1..(Len(r_find_all) - 1) : r_find_all[k + 1][1] < r_find_all[k][2]

\* C2: for a non-empty pattern find returns the smallest occurrence, or None
\* when there is none; a window whose first byte differs is never reported.
C2_FindFirst ==
    ("find" \in m_done /\ Len(m_pattern) > 0) =>
        LET occ == Occurrences(m_pattern, m_text)
        IN IF occ = {} THEN r_find = None
           ELSE r_find = Some(CHOOSE s \in occ : \A t \in occ : s <= t)

\* C2 witness: find answered None on a haystack of the pattern's length that
\* agrees with the pattern everywhere but in the first byte ("jeb" / "0eb").
C2_Witness ==
    /\ "find" \in m_done
    /\ Len(m_pattern) >= 2
    /\ Len(m_text) = Len(m_pattern)
    /\ m_text[1] # m_pattern[1]
    /\ \A k \in 2..Len(m_pattern) : m_text[k] = m_pattern[k]
    /\ r_find = None

\* C3 as stated: for every pattern, the empty one included, contains is true
\* exactly when find_all is non-empty.
C3_ContainsIffFindAll_Original ==
    ({"contains", "find_all"} \subseteq m_done) =>
        (r_contains <=> (r_find_all # <<>>))

\* C3 amended: for every non-empty pattern contains is true exactly when
\* find_all is non-empty; for the empty pattern contains is true on every
\* haystack while find_all is empty.
C3_ContainsIffFindAll ==
    ({"contains", "find_all"} \subseteq m_done) =>
        IF Len(m_pattern) > 0
        THEN r_contains <=> (r_find_all # <<>>)
        ELSE r_contains /\ r_find_all = <<>>

\* C3 witness: both were applied, to a non-empty pattern that occurs.
C3_Witness ==
    /\ {"contains", "find_all"} \subseteq m_done
    /\ Len(m_pattern) > 0
    /\ r_contains
    /\ r_find_all # <<>>

-----------------------------------------------------------------------------
(* SpecFilterList: a FilterList object under add / remove / clear /        *)
(* matches, with rule texts and lines of bounded length.                   *)

MaxRules == 2
MaxRuleText == 2
MaxLineLen == 3
RuleChars == {97, 66}
LineBytes == {97, 65, 98}

fl_list == [includes |-> fl_includes, excludes |-> fl_excludes]

FlInit ==
    /\ fl_includes = FilterList_new.includes
    /\ fl_excludes = FilterList_new.excludes
    /\ fl_op = "new"
    /\ fl_line = <<>>
    /\ fl_result = TRUE
    /\ BmhIdle
    /\ FoldIdle
    /\ AppIdle

FlAddInclude ==
    \E pattern \in SeqsUpTo(RuleChars, MaxRuleText) :
        /\ Len(fl_includes) + Len(fl_excludes) < MaxRules
        /\ fl_includes' = FilterList_add_include(fl_list, pattern).includes
        /\ fl_op' = "add_include"
        /\ fl_line' = <<>>
        /\ fl_result' = TRUE
        /\ UNCHANGED <<fl_excludes, bmh_vars, fold_vars, app_vars>>

FlAddExclude ==
    \E pattern \in SeqsUpTo(RuleChars, MaxRuleText) :
        /\ Len(fl_includes) + Len(fl_excludes) < MaxRules
        /\ fl_excludes' = FilterList_add_exclude(fl_list, pattern).excludes
        /\ fl_op' = "add_exclude"
        /\ fl_line' = <<>>
        /\ fl_result' = TRUE
        /\ UNCHANGED <<fl_includes, bmh_vars, fold_vars, app_vars>>

FlRemoveInclude ==
    \E index \in 0..MaxRules :
        /\ fl_includes' = FilterList_remove_include(fl_list, index).includes
        /\ fl_op' = "remove_include"
        /\ fl_line' = <<>>
        /\ fl_result' = TRUE
        /\ UNCHANGED <<fl_excludes, bmh_vars, fold_vars, app_vars>>

FlRemoveExclude ==
    \E index \in 0..MaxRules :
        /\ fl_excludes' = FilterList_remove_exclude(fl_list, index).excludes
        /\ fl_op' = "remove_exclude"
        /\ fl_line' = <<>>
        /\ fl_result' = TRUE
        /\ UNCHANGED <<fl_includes, bmh_vars, fold_vars, app_vars>>

FlClear ==
    /\ fl_includes' = FilterList_clear(fl_list).includes
    /\ fl_excludes' = FilterList_clear(fl_list).excludes
    /\ fl_op' = "clear"
    /\ fl_line' = <<>>
    /\ fl_result' = TRUE
    /\ UNCHANGED <<bmh_vars, fold_vars, app_vars>>

FlMatches ==
    \E text \in SeqsUpTo(LineBytes, MaxLineLen) :
        /\ fl_line' = text
        /\ fl_result' = FilterList_matches(fl_list, text)
        /\ fl_op' = "matches"
        /\ UNCHANGED <<fl_includes, fl_excludes, bmh_vars, fold_vars, app_vars>>

FlNext ==
    \/ FlAddInclude
    \/ FlAddExclude
    \/ FlRemoveInclude
    \/ FlRemoveExclude
    \/ FlClear
    \/ FlMatches

SpecFilterList == FlInit /\ [][FlNext]_vars

\* C4: FilterList::matches(line) is true exactly when the line matches every
\* include rule and no exclude rule; a list with no rules accepts every line,
\* the empty one included.
C4_FilterListMatches ==
    fl_op = "matches" =>
        /\ fl_result <=>
              /\ \A i \in 1..Len(fl_includes) : FilterRule_matches(fl_includes[i], fl_line)
              /\ \A e \in 1..Len(fl_excludes) : ~FilterRule_matches(fl_excludes[e], fl_line)
        /\ (fl_includes = <<>> /\ fl_excludes = <<>>) => fl_result

\* C4 witness: a list with one include and one exclude has rejected a line
\* that its include accepts, because the exclude matches it too.
C4_Witness ==
    /\ fl_op = "matches"
    /\ Len(fl_includes) = 1
    /\ Len(fl_excludes) = 1
    /\ FilterRule_matches(fl_includes[1], fl_line)
    /\ FilterRule_matches(fl_excludes[1], fl_line)
    /\ fl_includes[1].matcher_pattern # <<>>
    /\ fl_excludes[1].matcher_pattern # <<>>
    /\ ~fl_result

-----------------------------------------------------------------------------
(* SpecFold: one pattern text against one line, through a FilterRule and   *)
(* through the matcher of a search session.  The texts hold ASCII letters  *)
(* of both cases and the two-byte chars U+00C9 and U+00E9; the lines hold  *)
(* the bytes of those chars.                                               *)

MaxFoldText == 2
MaxFoldLine == 3
FoldChars == {97, 65, 201, 233}
FoldBytes == {97, 65, 195, 137, 169}

FoldInit ==
    /\ fold_text \in SeqsUpTo(FoldChars, MaxFoldText)
    /\ fold_line \in SeqsUpTo(FoldBytes, MaxFoldLine)
    /\ fold_done = {}
    /\ r_rule = FALSE
    /\ r_search = <<>>
    /\ BmhIdle
    /\ FlIdle
    /\ AppIdle

\* FilterRule::new(fold_text, Include).matches(fold_line)
FoldRule ==
    /\ "rule" \notin fold_done
    /\ fold_done' = fold_done \cup {"rule"}
    /\ r_rule' = FilterRule_matches(FilterRule_new(fold_text, "Include"), fold_line)
    /\ UNCHANGED <<fold_text, fold_line, r_search, bmh_vars, fl_vars, app_vars>>

\* The spans a search session for the query fold_text finds in fold_line;
\* init_search_state makes no session for the empty query.
FoldSearch ==
    /\ "search" \notin fold_done
    /\ fold_text # <<>>
    /\ fold_done' = fold_done \cup {"search"}
    /\ r_search' = LineMatches(SearchMatcherPattern(fold_text), fold_line)
    /\ UNCHANGED <<fold_text, fold_line, r_rule, bmh_vars, fl_vars, app_vars>>

FoldNext == FoldRule \/ FoldSearch

SpecFold == FoldInit /\ [][FoldNext]_vars

\* P occurs in H as a contiguous run of bytes.
IsSubstring(P, H) == Occurrences(P, H) # {}

\* C5: folding is ASCII-only on both sides: a rule, or a search query, with
\* text P matches the line L exactly when the ASCII-lowercased bytes of L
\* contain the ASCII-lowercased bytes of P.
C5_AsciiOnlyFold ==
    LET expected == IsSubstring(LowerBuf(Utf8(fold_text)), LowerBuf(fold_line))
    IN /\ "rule" \in fold_done => (r_rule <=> expected)
       /\ "search" \in fold_done => ((r_search # <<>>) <=> expected)

-----------------------------------------------------------------------------
(* App: the methods of impl App, app.rs:113-1073, as functions from the    *)
(* App record to the App record it is left as.                             *)

\* LogStorage::len and LogStorage::get_line on the lines of a store.
LogStorage_len(lines) == Len(lines)

LogStorage_get_line(lines, idx) ==
    IF idx < Len(lines) THEN Some(At(lines, idx)) ELSE None

\* App::filtered_len
filtered_len(a) == Len(a.filtered_indices)

\* App::get_line: the line of the store with that index, None without a store.
App_get_line(a, idx) ==
    IF a.storage = None THEN None ELSE LogStorage_get_line(a.storage[1], idx)

\* App::get_filtered_entry: `filtered_indices.get(idx).and_then(get_line)`.
get_filtered_entry(a, idx) ==
    IF idx >= Len(a.filtered_indices) THEN None
    ELSE App_get_line(a, At(a.filtered_indices, idx))

\* A filter loop that leaves the last line of the store out.
RECURSIVE FilterLoopDropLast(_, _, _, _)
FilterLoopDropLast(lines, groups, idx, acc) ==
    IF idx >= Len(lines) - 1 THEN acc
    ELSE FilterLoopDropLast(lines, groups, idx + 1,
                            IF FilterSet_matches(groups, At(lines, idx))
                            THEN Append(acc, idx) ELSE acc)

\* `for (idx, mmap_str) in storage.iter_enumerated() { if self.filters.matches(..)
\* { self.filtered_indices.push(idx) } }`
RECURSIVE FilterLoop(_, _, _, _)
FilterLoop(lines, groups, idx, acc) ==
    IF idx >= Len(lines) THEN acc
    ELSE FilterLoop(lines, groups, idx + 1,
                    IF FilterSet_matches(groups, At(lines, idx))
                    THEN Append(acc, idx) ELSE acc)

\* update_filtered_logs without the `self.filtered_indices.clear()`.
update_filtered_logs_no_clear(a) ==
    IF a.storage = None THEN a
    ELSE [a EXCEPT !.filtered_indices =
              FilterLoop(a.storage[1], a.filters, 0, a.filtered_indices)]

\* App::update_filtered_logs
update_filtered_logs(a) ==
    LET cleared == [a EXCEPT !.filtered_indices = <<>>]
    IN IF a.storage = None THEN cleared
       ELSE [cleared EXCEPT !.filtered_indices =
                 FilterLoop(a.storage[1], a.filters, 0, cleared.filtered_indices)]

\* App::set_storage
set_storage(a, lines) == update_filtered_logs([a EXCEPT !.storage = Some(lines)])

\* App::start_loading: a new channel replaces the receiver.
start_loading(a) ==
    [a EXCEPT !.log_receiver = TRUE,
              !.loading_status = [tag |-> "Loading", current |-> 0, total |-> 1]]

\* App::check_for_loaded_logs, given the stores waiting on the channel: every
\* one is received, each replacing the store and counting one.
RECURSIVE ReceiveLoop(_, _)
ReceiveLoop(a, waiting) ==
    IF waiting = <<>> THEN a
    ELSE ReceiveLoop(
             [a EXCEPT !.storage = Some(Head(waiting)),
                       !.loading_status =
                           IF @.tag = "Loading"
                           THEN [@ EXCEPT !.current = @ + 1]
                           ELSE @],
             Tail(waiting))

check_for_loaded_logs(a, waiting) ==
    IF a.log_receiver THEN ReceiveLoop(a, waiting) ELSE a

\* App::finish_loading
finish_loading(a) ==
    update_filtered_logs([a EXCEPT !.loading_status = [tag |-> "Complete"],
                                   !.log_receiver = FALSE])

\* App::ensure_valid_selection
ensure_valid_selection(a) ==
    IF a.filters = <<>>
    THEN [a EXCEPT !.selected_group = 0, !.selected_filter = 0]
    ELSE LET g == Min(a.selected_group, saturating_sub(Len(a.filters), 1))
             group == At(a.filters, g)
         IN [a EXCEPT !.selected_group = g,
                      !.selected_filter =
                          IF group = <<>> THEN 0
                          ELSE Min(@, saturating_sub(Len(group), 1))]

\* App::clamp_scroll
clamp_scroll(a) ==
    IF a.filtered_indices = <<>> THEN a
    ELSE LET line == Min(a.selected_line, saturating_sub(filtered_len(a), 1))
             effective_height ==
                 IF a.wrap_mode THEN Max(a.viewport_height \div 2, 1)
                 ELSE a.viewport_height
         IN [a EXCEPT !.selected_line = line,
                      !.scroll_offset =
                          IF line < @ THEN line
                          ELSE IF line >= @ + effective_height
                               THEN saturating_sub(line, saturating_sub(effective_height, 1))
                               ELSE @]

\* App::clear_search_on_refilter
clear_search_on_refilter(a) == [a EXCEPT !.search_query = None, !.search_state = None]

\* A clear_search that drops the session and keeps the query.
clear_search_keep_query(a) == [a EXCEPT !.search_state = None]

\* App::clear_search
clear_search(a) == [a EXCEPT !.search_query = None, !.search_state = None]

\* App::has_search and App::get_search_query
has_search(a) == a.search_state # None
get_search_query(a) == a.search_query

\* App::total_matches
total_matches(a) ==
    IF a.search_state = None THEN 0 ELSE a.search_state[1].total_matches

\* A counting loop that counts each line with a match once.
RECURSIVE TotalLoopCountLines(_, _, _, _, _, _)
TotalLoopCountLines(lines, view, matcher_pattern, filtered_idx, total, first_position) ==
    IF filtered_idx >= Len(view) THEN <<total, first_position>>
    ELSE LET line == LogStorage_get_line(lines, At(view, filtered_idx))
             found == IF line = None THEN <<>>
                      ELSE LineMatches(matcher_pattern, line[1])
         IN TotalLoopCountLines(lines, view, matcher_pattern, filtered_idx + 1,
                                IF found # <<>> THEN total + 1 ELSE total,
                                IF first_position = None /\ found # <<>>
                                THEN Some([filtered_idx |-> filtered_idx,
                                           byte_offset  |-> found[1][1],
                                           match_len    |-> found[1][2] - found[1][1]])
                                ELSE first_position)

\* App::compute_total_matches: <<total, first_position>>.  The loop over the
\* filtered view skips an entry whose line the store does not have.
RECURSIVE TotalLoop(_, _, _, _, _, _)
TotalLoop(lines, view, matcher_pattern, filtered_idx, total, first_position) ==
    IF filtered_idx >= Len(view) THEN <<total, first_position>>
    ELSE LET line == LogStorage_get_line(lines, At(view, filtered_idx))
         IN IF line = None
            THEN TotalLoop(lines, view, matcher_pattern, filtered_idx + 1,
                           total, first_position)
            ELSE LET found == LineMatches(matcher_pattern, line[1])
                 IN TotalLoop(lines, view, matcher_pattern, filtered_idx + 1,
                              total + Len(found),
                              IF first_position = None /\ found # <<>>
                              THEN Some([filtered_idx |-> filtered_idx,
                                         byte_offset  |-> found[1][1],
                                         match_len    |-> found[1][2] - found[1][1]])
                              ELSE first_position)

compute_total_matches(a, matcher_pattern) ==
    IF a.storage = None THEN <<0, None>>
    ELSE TotalLoop(a.storage[1], a.filtered_indices, matcher_pattern, 0, 0, None)

\* A position loop that answers with the first match of the line that holds
\* the match with ordinal match_idx.
RECURSIVE PositionLoopFirstOfLine(_, _, _, _, _, _)
PositionLoopFirstOfLine(lines, view, matcher_pattern, filtered_idx, current_match, match_idx) ==
    IF filtered_idx >= Len(view) THEN None
    ELSE LET line == LogStorage_get_line(lines, At(view, filtered_idx))
         IN IF line = None THEN None
            ELSE LET found == LineMatches(matcher_pattern, line[1])
                 IN IF match_idx - current_match < Len(found)
                    THEN Some([filtered_idx |-> filtered_idx,
                               byte_offset  |-> found[1][1],
                               match_len    |-> found[1][2] - found[1][1]])
                    ELSE PositionLoopFirstOfLine(lines, view, matcher_pattern,
                                                 filtered_idx + 1,
                                                 current_match + Len(found), match_idx)

\* App::get_match_position: the match with ordinal match_idx, scanning the
\* filtered view from its start; None as soon as a line is missing.
RECURSIVE PositionLoop(_, _, _, _, _, _)
PositionLoop(lines, view, matcher_pattern, filtered_idx, current_match, match_idx) ==
    IF filtered_idx >= Len(view) THEN None
    ELSE LET line == LogStorage_get_line(lines, At(view, filtered_idx))
         IN IF line = None THEN None
            ELSE LET found == LineMatches(matcher_pattern, line[1])
                 IN IF match_idx - current_match < Len(found)
                    THEN LET span == At(found, match_idx - current_match)
                         IN Some([filtered_idx |-> filtered_idx,
                                  byte_offset  |-> span[1],
                                  match_len    |-> span[2] - span[1]])
                    ELSE PositionLoop(lines, view, matcher_pattern, filtered_idx + 1,
                                      current_match + Len(found), match_idx)

get_match_position(a, match_idx) ==
    IF a.search_state = None THEN None
    ELSE IF a.storage = None THEN None
    ELSE PositionLoop(a.storage[1], a.filtered_indices,
                      a.search_state[1].matcher_pattern, 0, 0, match_idx)

\* A scroll rule that never moves the view to the right.
ScrollToMatchLeftOnly(scroll, width, match_char_pos, match_char_len) ==
    IF match_char_pos < scroll THEN saturating_sub(match_char_pos, 10) ELSE scroll

\* The new horizontal_scroll of App::jump_to_match, app.rs:1001-1014: the
\* scroll moves only when the match is outside the viewport less its margin.
ScrollToMatch(scroll, width, match_char_pos, match_char_len) ==
    LET margin == 10
    IN IF match_char_pos < scroll
       THEN saturating_sub(match_char_pos, margin)
       ELSE IF match_char_pos + match_char_len > scroll + saturating_sub(width, margin)
       THEN saturating_sub(match_char_pos + match_char_len + margin, width)
       ELSE scroll

\* The horizontal auto-scroll at the end of App::jump_to_match, app.rs:984-1014,
\* for the match at `position`.  Slicing line_text at a byte index that is past
\* its end or inside a char panics.
HorizontalAutoScroll(a, position) ==
    IF a.storage = None THEN a
    ELSE IF position.filtered_idx >= Len(a.filtered_indices) THEN a
    ELSE LET line == LogStorage_get_line(a.storage[1],
                                         At(a.filtered_indices, position.filtered_idx))
         IN IF line = None THEN a
            ELSE LET line_text == from_utf8_lossy(line[1])
                     slice_start == position.byte_offset
                     slice_end == position.byte_offset + position.match_len
                     match_char_pos == byte_to_char_offset(line_text, slice_start)
                     match_char_len ==
                         Cardinality({k \in 0..(Len(line_text) - 1) :
                                         /\ CharStart(line_text, k) >= slice_start
                                         /\ CharStart(line_text, k) < slice_end})
                 IN IF \/ slice_end > StrLen(line_text)
                       \/ ~is_char_boundary(line_text, slice_start)
                       \/ ~is_char_boundary(line_text, slice_end)
                    THEN [a EXCEPT !.panicked = TRUE]
                    ELSE [a EXCEPT !.horizontal_scroll =
                              ScrollToMatch(@, a.viewport_width,
                                            match_char_pos, match_char_len)]

\* App::jump_to_match
jump_to_match(a, match_idx) ==
    IF a.search_state = None THEN a
    ELSE IF \/ a.search_state[1].total_matches = 0
            \/ match_idx >= a.search_state[1].total_matches
    THEN a
    ELSE LET a1 == [a EXCEPT !.search_state[1].current_idx = match_idx]
             position == get_match_position(a1, match_idx)
         IN IF position = None THEN a1
            ELSE HorizontalAutoScroll(
                     clamp_scroll([a1 EXCEPT
                         !.search_state[1].current_position = position,
                         !.selected_line = position[1].filtered_idx]),
                     position[1])

\* The capacity of the match cache.
MatchCacheCapacity == 100

\* App::init_search_state.  The session keeps the bytes its matcher is built
\* from; match_cache is the LRU cache as a list of <<key, spans>>, least
\* recently used first.
init_search_state(a, query) ==
    IF query = <<>> THEN clear_search(a)
    ELSE LET lower_query == to_lowercase(query)
             pattern_bytes == SearchMatcherPattern(query)
             counted == compute_total_matches(a, pattern_bytes)
             state == [query            |-> lower_query,
                       matcher_pattern  |-> pattern_bytes,
                       current_idx      |-> 0,
                       current_position |-> counted[2],
                       total_matches    |-> counted[1],
                       match_cache      |-> <<>>]
             a1 == [a EXCEPT !.search_state = Some(state),
                             !.search_query = Some(query)]
         IN IF counted[1] > 0 THEN jump_to_match(a1, 0) ELSE a1

\* A next_match that steps past the last match.
next_match_no_wrap(a) ==
    LET total == total_matches(a)
    IN IF total = 0 THEN a
       ELSE [a EXCEPT !.search_state[1].current_idx = @ + 1]

\* A next_match that resets the horizontal scroll when there is no match.
next_match_resets_scroll(a) ==
    LET total == total_matches(a)
    IN IF total = 0 THEN [a EXCEPT !.horizontal_scroll = 0]
       ELSE jump_to_match(a, (a.search_state[1].current_idx + 1) % total)

\* App::next_match
next_match(a) ==
    LET total == total_matches(a)
    IN IF total = 0 THEN a
       ELSE jump_to_match(a, (a.search_state[1].current_idx + 1) % total)

\* A prev_match that stays at the first match.
prev_match_no_wrap(a) ==
    LET total == total_matches(a)
    IN IF total = 0 THEN a
       ELSE jump_to_match(a, saturating_sub(a.search_state[1].current_idx, 1))

\* App::prev_match
prev_match(a) ==
    LET total == total_matches(a)
    IN IF total = 0 THEN a
       ELSE jump_to_match(a, IF a.search_state[1].current_idx = 0
                             THEN total - 1
                             ELSE a.search_state[1].current_idx - 1)

\* lru::LruCache as the list of its <<key, value>> entries, least recently
\* used first.  LruIndex is the place of a key in it, 0 when it is absent.
LruIndex(cache, key) ==
    IF \E k \in 1..Len(cache) : cache[k][1] = key
    THEN CHOOSE k \in 1..Len(cache) : cache[k][1] = key
    ELSE 0

\* LruCache::get: the value of the key, which becomes the most recently used.
LruCache_get(cache, key) ==
    LET k == LruIndex(cache, key)
    IN IF k = 0 THEN [cache |-> cache, value |-> None]
       ELSE [cache |-> VecRemove(cache, k - 1) \o <<cache[k]>>,
             value |-> Some(cache[k][2])]

\* An LruCache::put that evicts the most recently used entry of a full cache.
LruCache_put_evict_newest(cache, key, value, cap) ==
    LET k == LruIndex(cache, key)
    IN IF k # 0 THEN VecRemove(cache, k - 1) \o << <<key, value>> >>
       ELSE IF Len(cache) >= cap
            THEN SubSeq(cache, 1, Len(cache) - 1) \o << <<key, value>> >>
            ELSE cache \o << <<key, value>> >>

\* LruCache::put: the entry becomes the most recently used; a new key put
\* into a full cache evicts the least recently used entry.
LruCache_put(cache, key, value, cap) ==
    LET k == LruIndex(cache, key)
    IN IF k # 0 THEN VecRemove(cache, k - 1) \o << <<key, value>> >>
       ELSE IF Len(cache) >= cap
            THEN Tail(cache) \o << <<key, value>> >>
            ELSE cache \o << <<key, value>> >>

\* A get_line_matches that answers from the cache only when the cache holds
\* the key, and otherwise returns no span.
get_line_matches_no_scan(a, filtered_idx) ==
    IF a.search_state = None THEN [app |-> a, ret |-> <<>>]
    ELSE LET got == LruCache_get(a.search_state[1].match_cache, filtered_idx)
         IN IF got.value # None
            THEN [app |-> [a EXCEPT !.search_state[1].match_cache = got.cache],
                  ret |-> got.value[1]]
            ELSE [app |-> a, ret |-> <<>>]

\* A get_line_matches that caches an empty answer for an index out of range.
get_line_matches_cache_invalid(a, filtered_idx) ==
    IF a.search_state = None THEN [app |-> a, ret |-> <<>>]
    ELSE LET state == a.search_state[1]
             got == LruCache_get(state.match_cache, filtered_idx)
             line == IF a.storage = None \/ filtered_idx >= Len(a.filtered_indices)
                     THEN None
                     ELSE LogStorage_get_line(a.storage[1],
                                              At(a.filtered_indices, filtered_idx))
             found == IF line = None THEN <<>>
                      ELSE LineMatches(state.matcher_pattern, line[1])
         IN IF got.value # None
            THEN [app |-> [a EXCEPT !.search_state[1].match_cache = got.cache],
                  ret |-> got.value[1]]
            ELSE [app |-> [a EXCEPT !.search_state[1].match_cache =
                              LruCache_put(@, filtered_idx, found, MatchCacheCapacity)],
                  ret |-> found]

\* App::get_line_matches: the App it leaves and the spans it returns.
get_line_matches(a, filtered_idx) ==
    IF a.search_state = None THEN [app |-> a, ret |-> <<>>]
    ELSE LET state == a.search_state[1]
             got == LruCache_get(state.match_cache, filtered_idx)
         IN IF got.value # None
            THEN [app |-> [a EXCEPT !.search_state[1].match_cache = got.cache],
                  ret |-> got.value[1]]
            ELSE IF a.storage = None THEN [app |-> a, ret |-> <<>>]
            ELSE IF filtered_idx >= Len(a.filtered_indices) THEN [app |-> a, ret |-> <<>>]
            ELSE LET line == LogStorage_get_line(a.storage[1],
                                                 At(a.filtered_indices, filtered_idx))
                 IN IF line = None THEN [app |-> a, ret |-> <<>>]
                    ELSE LET found == LineMatches(state.matcher_pattern, line[1])
                         IN [app |-> [a EXCEPT !.search_state[1].match_cache =
                                         LruCache_put(@, filtered_idx, found,
                                                      MatchCacheCapacity)],
                             ret |-> found]

\* App::current_match_display: the two numbers of "{current_idx + 1}/{total}".
current_match_display(a) ==
    IF a.search_state = None THEN None
    ELSE IF a.search_state[1].total_matches = 0 THEN None
    ELSE Some(<<a.search_state[1].current_idx + 1, a.search_state[1].total_matches>>)

\* An is_current_match that compares the filtered index only.
is_current_match_line_only(a, filtered_idx, byte_offset) ==
    IF a.search_state = None THEN FALSE
    ELSE IF a.search_state[1].current_position # None
    THEN a.search_state[1].current_position[1].filtered_idx = filtered_idx
    ELSE FALSE

\* App::is_current_match
is_current_match(a, filtered_idx, byte_offset) ==
    IF a.search_state = None THEN FALSE
    ELSE IF a.search_state[1].current_position # None
    THEN LET pos == a.search_state[1].current_position[1]
         IN pos.filtered_idx = filtered_idx /\ pos.byte_offset = byte_offset
    ELSE FALSE

-----------------------------------------------------------------------------
(* Key handling, app.rs:317-746.  A key is its KeyCode: [code |-> "Char",   *)
(* c |-> the char], or a named key with c = 0.                             *)

Key(code, c) == [code |-> code, c |-> c]
IsChar(key, c) == key.code = "Char" /\ key.c = c

\* String::pop and String::push
string_pop(text) == IF text = <<>> THEN text ELSE SubSeq(text, 1, Len(text) - 1)
string_push(text, c) == Append(text, c)

\* The part of a string before its first space (the first piece of
\* `splitn(2, ' ')`, or `&rest[..space_pos]`).
RECURSIVE WordBeforeSpace(_)
WordBeforeSpace(text) ==
    IF text = <<>> \/ Head(text) = 32 THEN <<>>
    ELSE <<Head(text)>> \o WordBeforeSpace(Tail(text))

\* The command word App::parse_command returns (its first component).
parse_command_word(given) ==
    LET input == trim(given)
        closing == {k \in 2..Len(input) : input[k] = 34}
    IN IF input # <<>> /\ input[1] = 34 /\ closing # {}
       THEN LET end_quote == CHOOSE k \in closing : \A j \in closing : k <= j
            IN WordBeforeSpace(trim_start(SubSeq(input, end_quote + 1, Len(input))))
       ELSE WordBeforeSpace(input)

\* App::execute_command.  "w" / "write" write a file and set the status
\* message only; "q" / "quit" set should_quit.
execute_command(a) ==
    LET input == trim(a.input_buffer)
    IN IF input = <<>> THEN a
       ELSE IF parse_command_word(input) \in {<<113>>, <<113, 117, 105, 116>>}
            THEN [a EXCEPT !.should_quit = TRUE]
            ELSE a

\* App::handle_search_input_key
handle_search_input_key(a, key) ==
    CASE key.code = "Esc" -> [a EXCEPT !.mode = "Normal", !.input_buffer = <<>>]
      [] key.code = "Enter" ->
            LET a1 == IF trim(a.input_buffer) = <<>>
                      THEN clear_search(a)
                      ELSE LET query == trim(a.input_buffer)
                           IN init_search_state(
                                  [a EXCEPT !.search_query = Some(query)], query)
            IN [a1 EXCEPT !.mode = "Normal", !.input_buffer = <<>>]
      [] key.code = "Backspace" -> [a EXCEPT !.input_buffer = string_pop(@)]
      [] key.code = "Char" -> [a EXCEPT !.input_buffer = string_push(@, key.c)]
      [] OTHER -> a

\* The Enter branch of handle_filter_input_key for a non-empty input,
\* app.rs:367-386.
AddFilterFromInput(a) ==
    LET a1 == IF a.pending_new_group
              THEN [a EXCEPT !.filters = Append(@, <<>>),
                             !.selected_group = saturating_sub(Len(a.filters) + 1, 1),
                             !.selected_filter = 0]
              ELSE a
        a2 == IF a1.filters = <<>>
              THEN [a1 EXCEPT !.filters = Append(@, <<>>),
                              !.selected_group = 0,
                              !.selected_filter = 0]
              ELSE a1
        a3 == IF a2.selected_group < Len(a2.filters)
              THEN [a2 EXCEPT !.filters[a2.selected_group + 1] =
                                  Append(@, Filter_new(trim(a2.input_buffer)))]
              ELSE a2
        a4 == ensure_valid_selection(a3)
        a5 == [a4 EXCEPT !.selected_filter =
                   saturating_sub(Len(At(a4.filters, a4.selected_group)), 1)]
    IN clear_search_on_refilter(update_filtered_logs(a5))

\* App::handle_filter_input_key
handle_filter_input_key(a, key) ==
    CASE key.code = "Esc" ->
            [a EXCEPT !.mode = "Filter", !.input_buffer = <<>>,
                      !.pending_new_group = FALSE]
      [] key.code = "Enter" ->
            LET a1 == IF trim(a.input_buffer) # <<>> THEN AddFilterFromInput(a) ELSE a
            IN [a1 EXCEPT !.mode = "Filter", !.input_buffer = <<>>,
                          !.pending_new_group = FALSE]
      [] key.code = "Backspace" -> [a EXCEPT !.input_buffer = string_pop(@)]
      [] key.code = "Char" -> [a EXCEPT !.input_buffer = string_push(@, key.c)]
      [] OTHER -> a

\* A handle_command_key whose Esc leaves the typed text in the buffer.
handle_command_key_esc_keeps_buffer(a, key) ==
    CASE key.code = "Esc" -> [a EXCEPT !.mode = "Normal"]
      [] key.code = "Enter" ->
            [execute_command(a) EXCEPT !.mode = "Normal", !.input_buffer = <<>>]
      [] key.code = "Backspace" -> [a EXCEPT !.input_buffer = string_pop(@)]
      [] key.code = "Char" -> [a EXCEPT !.input_buffer = string_push(@, key.c)]
      [] OTHER -> a

\* App::handle_command_key
handle_command_key(a, key) ==
    CASE key.code = "Esc" -> [a EXCEPT !.mode = "Normal", !.input_buffer = <<>>]
      [] key.code = "Enter" ->
            [execute_command(a) EXCEPT !.mode = "Normal", !.input_buffer = <<>>]
      [] key.code = "Backspace" -> [a EXCEPT !.input_buffer = string_pop(@)]
      [] key.code = "Char" -> [a EXCEPT !.input_buffer = string_push(@, key.c)]
      [] OTHER -> a

\* App::handle_normal_key.  The keys x, y and Esc act on the selection, the
\* clipboard and the status message only.
handle_normal_key(a, key) ==
    CASE IsChar(key, 106) \/ key.code = "Down" ->
            clamp_scroll(IF a.selected_line < saturating_sub(filtered_len(a), 1)
                         THEN [a EXCEPT !.selected_line = @ + 1]
                         ELSE a)
      [] IsChar(key, 107) \/ key.code = "Up" ->
            clamp_scroll([a EXCEPT !.selected_line = saturating_sub(@, 1)])
      [] IsChar(key, 108) \/ key.code = "Right" ->
            [a EXCEPT !.horizontal_scroll = @ + 4]
      [] IsChar(key, 104) \/ key.code = "Left" ->
            [a EXCEPT !.horizontal_scroll = saturating_sub(@, 4)]
      [] IsChar(key, 71) ->
            clamp_scroll([a EXCEPT !.selected_line = saturating_sub(filtered_len(a), 1)])
      [] IsChar(key, 103) -> [a EXCEPT !.selected_line = 0, !.scroll_offset = 0]
      [] IsChar(key, 116) -> [a EXCEPT !.mode = "Filter"]
      [] IsChar(key, 58) -> [a EXCEPT !.mode = "Command"]
      [] IsChar(key, 119) -> [a EXCEPT !.wrap_mode = ~@]
      [] IsChar(key, 47) ->
            [a EXCEPT !.mode = "SearchInput",
                      !.input_buffer = IF a.search_query # None
                                       THEN a.search_query[1] ELSE <<>>]
      [] IsChar(key, 110) -> next_match(a)
      [] IsChar(key, 78) -> prev_match(a)
      [] OTHER -> a

\* The Space branch of handle_filter_key, app.rs:712-720.
ToggleSelectedFilter(a) ==
    LET a1 == IF /\ a.selected_group < Len(a.filters)
                 /\ a.selected_filter < Len(At(a.filters, a.selected_group))
              THEN [a EXCEPT !.filters[a.selected_group + 1][a.selected_filter + 1] =
                                 Filter_toggle(@)]
              ELSE a
    IN clear_search_on_refilter(update_filtered_logs(a1))

\* The 'd' branch of handle_filter_key, app.rs:721-732, which keeps the
\* search session.
RemoveSelectedFilterKeepSearch(a) ==
    IF a.filters = <<>> THEN a
    ELSE LET a1 == IF /\ a.selected_group < Len(a.filters)
                      /\ a.selected_filter < Len(At(a.filters, a.selected_group))
                   THEN [a EXCEPT !.filters[a.selected_group + 1] =
                                      VecRemove(@, a.selected_filter)]
                   ELSE a
         IN update_filtered_logs(ensure_valid_selection(a1))

\* The 'd' branch of handle_filter_key, app.rs:721-732.
RemoveSelectedFilter(a) ==
    IF a.filters = <<>> THEN a
    ELSE LET a1 == IF /\ a.selected_group < Len(a.filters)
                      /\ a.selected_filter < Len(At(a.filters, a.selected_group))
                   THEN [a EXCEPT !.filters[a.selected_group + 1] =
                                      VecRemove(@, a.selected_filter)]
                   ELSE a
         IN clear_search_on_refilter(update_filtered_logs(ensure_valid_selection(a1)))

\* App::handle_filter_key
handle_filter_key(a, key) ==
    CASE IsChar(key, 106) \/ key.code = "Down" ->
            IF /\ a.selected_group < Len(a.filters)
               /\ a.selected_filter + 1 < Len(At(a.filters, a.selected_group))
            THEN [a EXCEPT !.selected_filter = @ + 1]
            ELSE a
      [] IsChar(key, 107) \/ key.code = "Up" ->
            [a EXCEPT !.selected_filter = saturating_sub(@, 1)]
      [] IsChar(key, 104) \/ key.code = "Left" ->
            IF a.selected_group > 0
            THEN ensure_valid_selection([a EXCEPT !.selected_group = @ - 1])
            ELSE a
      [] IsChar(key, 108) \/ key.code = "Right" ->
            IF a.selected_group + 1 < Len(a.filters)
            THEN ensure_valid_selection([a EXCEPT !.selected_group = @ + 1])
            ELSE a
      [] IsChar(key, 32) -> ToggleSelectedFilter(a)
      [] IsChar(key, 100) -> RemoveSelectedFilter(a)
      [] IsChar(key, 70) -> [a EXCEPT !.pending_new_group = TRUE, !.mode = "FilterInput"]
      [] IsChar(key, 102) -> [a EXCEPT !.pending_new_group = FALSE, !.mode = "FilterInput"]
      [] IsChar(key, 116) \/ key.code = "Esc" -> [a EXCEPT !.mode = "Normal"]
      [] OTHER -> a

\* App::handle_key
handle_key(a, key) ==
    CASE a.mode = "FilterInput" -> handle_filter_input_key(a, key)
      [] a.mode = "Command" -> handle_command_key(a, key)
      [] a.mode = "Filter" -> handle_filter_key(a, key)
      [] a.mode = "DateRange" -> a
      [] a.mode = "Normal" -> handle_normal_key(a, key)
      [] a.mode = "SearchInput" -> handle_search_input_key(a, key)

-----------------------------------------------------------------------------
(* Spec: the App under its operations.  The environment is bounded: the    *)
(* stores offered, the chars typed, the number of filters and groups, the  *)
(* length of the input and of the channel.                                 *)

MaxInput == 1
MaxFilters == 1
MaxGroups == 2
MaxChannel == 1
MaxLoaded == 1

\* The stores a load can deliver: an empty file, and the lines "aAa", "b".
Stores ==
    { <<>>,
      << <<97, 65, 97>>, <<98>> >> }

\* The chars typed into the input buffer: 'a' and the space.
InputChars == {97, 32}

\* The keys pressed in Normal mode: j k G g t : / n N x and Esc.  The arrow
\* keys repeat j k h l; the keys l, h and w change horizontal_scroll and
\* wrap_mode only and are not pressed here.
NormalKeys ==
    {Key("Char", c) : c \in {106, 107, 71, 103, 116, 58, 47, 110, 78, 120}}
        \cup {Key("Esc", 0)}

\* The keys pressed in Filter mode: j k h l Space d F f t and Esc.
FilterKeys ==
    {Key("Char", c) : c \in {106, 107, 104, 108, 32, 100, 70, 102, 116}}
        \cup {Key("Esc", 0)}

\* The keys pressed in the three input modes.
InputKeys ==
    {Key("Char", c) : c \in InputChars}
        \cup {Key("Esc", 0), Key("Enter", 0), Key("Backspace", 0)}

\* The number of filters of a FilterSet, over all its groups.
RECURSIVE TotalFilters(_)
TotalFilters(groups) ==
    IF groups = <<>> THEN 0 ELSE Len(Head(groups)) + TotalFilters(Tail(groups))

Install(a) ==
    /\ storage' = a.storage
    /\ filtered_indices' = a.filtered_indices
    /\ filters' = a.filters
    /\ mode' = a.mode
    /\ should_quit' = a.should_quit
    /\ scroll_offset' = a.scroll_offset
    /\ horizontal_scroll' = a.horizontal_scroll
    /\ selected_line' = a.selected_line
    /\ loading_status' = a.loading_status
    /\ log_receiver' = a.log_receiver
    /\ selected_group' = a.selected_group
    /\ selected_filter' = a.selected_filter
    /\ input_buffer' = a.input_buffer
    /\ pending_new_group' = a.pending_new_group
    /\ wrap_mode' = a.wrap_mode
    /\ viewport_height' = a.viewport_height
    /\ viewport_width' = a.viewport_width
    /\ search_query' = a.search_query
    /\ search_state' = a.search_state
    /\ panicked' = a.panicked

\* An operation that leaves the App as `a`; one that panics ends the program
\* where it was.
Finish(a, refreshed, empty_query) ==
    /\ ~panicked
    /\ Install(IF a.panicked THEN [app EXCEPT !.panicked = TRUE] ELSE a)
    /\ last' = [refreshed   |-> ~a.panicked /\ refreshed,
                repeated    |-> /\ ~a.panicked
                                /\ refreshed /\ last.refreshed
                                /\ a.storage = storage /\ a.filters = filters,
                empty_query |-> ~a.panicked /\ empty_query,
                had_search  |-> /\ ~a.panicked
                                /\ a.filters # filters \/ empty_query
                                /\ has_search(app)]
    /\ UNCHANGED <<bmh_vars, fold_vars, fl_vars>>

AppInit ==
    /\ AppIs(App_new)
    /\ channel = <<>>
    /\ last = NoHistory
    /\ BmhIdle
    /\ FoldIdle
    /\ FlIdle

\* App::handle_key in Normal mode
NormalKey ==
    \E key \in NormalKeys :
        /\ mode = "Normal"
        /\ Finish(handle_key(app, key), FALSE, FALSE)
        /\ UNCHANGED channel

\* App::handle_key in Filter mode
FilterKey ==
    \E key \in FilterKeys :
        /\ mode = "Filter"
        /\ Finish(handle_key(app, key),
                  IsChar(key, 32) \/ (IsChar(key, 100) /\ filters # <<>>), FALSE)
        /\ UNCHANGED channel

\* App::handle_key in FilterInput mode
FilterInputKey ==
    \E key \in InputKeys :
        /\ mode = "FilterInput"
        /\ key.code = "Char" => Len(input_buffer) < MaxInput
        /\ (key.code = "Enter" /\ trim(input_buffer) # <<>>) =>
               /\ TotalFilters(filters) < MaxFilters
               /\ (pending_new_group \/ filters = <<>>) => Len(filters) < MaxGroups
        /\ Finish(handle_key(app, key),
                  key.code = "Enter" /\ trim(input_buffer) # <<>>, FALSE)
        /\ UNCHANGED channel

\* App::handle_key in Command mode
CommandKey ==
    \E key \in InputKeys :
        /\ mode = "Command"
        /\ key.code = "Char" => Len(input_buffer) < MaxInput
        /\ Finish(handle_key(app, key), FALSE, FALSE)
        /\ UNCHANGED channel

\* App::handle_key in SearchInput mode
SearchInputKey ==
    \E key \in InputKeys :
        /\ mode = "SearchInput"
        /\ key.code = "Char" => Len(input_buffer) < MaxInput
        /\ Finish(handle_key(app, key), FALSE,
                  key.code = "Enter" /\ trim(input_buffer) = <<>>)
        /\ UNCHANGED channel

\* App::set_storage
SetStorage ==
    \E lines \in Stores :
        /\ Finish(set_storage(app, lines), TRUE, FALSE)
        /\ UNCHANGED channel

\* App::start_loading: the old channel, if any, is dropped with what it holds.
StartLoading ==
    /\ Finish(start_loading(app), FALSE, FALSE)
    /\ channel' = <<>>

\* The loader thread sends a store on the Sender start_loading returned.
LoaderSend ==
    \E lines \in Stores :
        /\ ~panicked
        /\ log_receiver
        /\ Len(channel) < MaxChannel
        /\ loading_status.tag = "Loading"
        /\ loading_status.current + Len(channel) < MaxLoaded
        /\ channel' = Append(channel, lines)
        /\ last' = NoHistory
        /\ UNCHANGED <<storage, filtered_indices, filters, mode, should_quit,
                       scroll_offset, horizontal_scroll, selected_line, loading_status,
                       log_receiver, selected_group, selected_filter, input_buffer,
                       pending_new_group, wrap_mode, viewport_height, viewport_width,
                       search_query, search_state, panicked>>
        /\ UNCHANGED <<bmh_vars, fold_vars, fl_vars>>

\* App::check_for_loaded_logs
CheckForLoadedLogs ==
    /\ Finish(check_for_loaded_logs(app, channel), FALSE, FALSE)
    /\ channel' = IF log_receiver THEN <<>> ELSE channel

\* App::finish_loading: the receiver is dropped.
FinishLoading ==
    /\ Finish(finish_loading(app), TRUE, FALSE)
    /\ channel' = <<>>

\* App::update_filtered_logs
UpdateFilteredLogs ==
    /\ Finish(update_filtered_logs(app), TRUE, FALSE)
    /\ UNCHANGED channel

\* App::init_search_state
InitSearchState ==
    \E query \in SeqsUpTo(InputChars, MaxInput) :
        /\ Finish(init_search_state(app, query), FALSE, query = <<>>)
        /\ UNCHANGED channel

\* App::clear_search
ClearSearch ==
    /\ Finish(clear_search(app), FALSE, FALSE)
    /\ UNCHANGED channel

\* App::next_match
NextMatch ==
    /\ Finish(next_match(app), FALSE, FALSE)
    /\ UNCHANGED channel

\* App::prev_match
PrevMatch ==
    /\ Finish(prev_match(app), FALSE, FALSE)
    /\ UNCHANGED channel

Next ==
    \/ NormalKey
    \/ FilterKey
    \/ FilterInputKey
    \/ CommandKey
    \/ SearchInputKey
    \/ SetStorage
    \/ StartLoading
    \/ LoaderSend
    \/ CheckForLoadedLogs
    \/ FinishLoading
    \/ UpdateFilteredLogs
    \/ InitSearchState
    \/ ClearSearch
    \/ NextMatch
    \/ PrevMatch

Spec == AppInit /\ [][Next]_vars

-----------------------------------------------------------------------------
(* The filtered view.                                                      *)

\* The lines of the store, none when no store is loaded.
StoreLines == IF storage = None THEN <<>> ELSE storage[1]

\* The indices of a view, as a set.
ViewSet(view) == {view[k] : k \in 1..Len(view)}

StrictlyAscending(view) ==
    \A k \in 1..(Len(view) - 1) : view[k] < view[k + 1]

\* The indices of the lines of the store that pass the filter set.
PassingIndices ==
    {i \in 0..(Len(StoreLines) - 1) : FilterSet_matches(filters, At(StoreLines, i))}

\* The ascending sequence of the members of a finite set of naturals.
RECURSIVE Ascending(_)
Ascending(S) ==
    IF S = {} THEN <<>>
    ELSE LET least == CHOOSE x \in S : \A y \in S : x <= y
         IN <<least>> \o Ascending(S \ {least})

\* C6: after App::update_filtered_logs, filtered_indices is strictly
\* ascending, every entry is less than storage.len(), an index i is present
\* exactly when line i passes the filter set, and with no store loaded the
\* view is empty.
C6_UpdateFilteredLogs ==
    last.refreshed =>
        /\ StrictlyAscending(filtered_indices)
        /\ \A k \in 1..Len(filtered_indices) :
               filtered_indices[k] < LogStorage_len(StoreLines)
        /\ ViewSet(filtered_indices) = PassingIndices
        /\ storage = None => filtered_indices = <<>>

\* A refresh over the two-line store with an enabled filter that line 0
\* passes and line 1 does not.
C6_Witness ==
    /\ last.refreshed
    /\ storage # None
    /\ Len(StoreLines) = 2
    /\ filtered_indices = <<0>>
    /\ \E g \in 1..Len(filters) : \E f \in 1..Len(filters[g]) : filters[g][f].enabled

\* C7: in every state reached after a completed App operation, filtered_indices
\* equals the full recomputation over the current store and the current
\* filters.
C7_ViewIsCurrent ==
    ~panicked => filtered_indices = Ascending(PassingIndices)

\* C8: an update_filtered_logs that follows one, with the store and the
\* filters unchanged, leaves the same sequence of indices.
C8_RefreshIdempotent ==
    [][last'.repeated => filtered_indices' = filtered_indices]_vars

\* A second refresh in a row, over a view that is not empty.
C8_Witness ==
    /\ last.repeated
    /\ Len(filtered_indices) = 2

-----------------------------------------------------------------------------
(* The search session.                                                     *)

\* C9: a key event that changes the filter set (adds, removes or toggles a
\* filter) while a search session exists leaves no session: has_search() is
\* false and get_search_query() is None.
C9_FilterChangeDiscardsSearch ==
    [][(has_search(app) /\ filters' # filters) =>
           (search_state' = None /\ search_query' = None)]_vars

\* The filter set has just been changed while a session existed, and the
\* session is gone.
C9_Witness ==
    /\ last.had_search
    /\ ~last.empty_query
    /\ last.refreshed
    /\ ~has_search(app)
    /\ get_search_query(app) = None

\* C10: after init_search_state("") and after Enter on an empty or
\* whitespace-only search input, has_search() is false and
\* get_search_query() is None.
C10_EmptyQueryNoSession ==
    last.empty_query => (~has_search(app) /\ get_search_query(app) = None)

\* An empty query has just been given while a session existed, and the
\* session is gone.
C10_Witness ==
    /\ last.empty_query
    /\ last.had_search
    /\ ~has_search(app)
    /\ get_search_query(app) = None

-----------------------------------------------------------------------------
(* SpecSearch: one App whose store, filters and viewport are set and stay,  *)
(* under the search operations.  Here the history `last` holds the name of  *)
(* the last operation, its argument, what it returned, the App before it,   *)
(* and the filtered indices get_line_matches has fetched in the session,    *)
(* least recently fetched first.                                            *)

MaxHScroll == 8
MaxProbe == 3
MaxCurrentLine == 1

\* The stores: the lines "aAa", "b", "ba"; the one line "abbbabbbbbbbab";
\* the one line "\u{e9}a" (bytes C3 A9 61).
SearchStores ==
    { << <<97, 65, 97>>, <<98>>, <<98, 97>> >>,
      << <<97, 98, 98, 98, 97, 98, 98, 98, 98, 98, 98, 98, 97, 98>> >>,
      << <<195, 169, 97>> >> }

\* The filter sets: none, and one group with the filter "b".
SearchFilterSets == { <<>>, << <<Filter_new(<<98>>)>> >> }

\* The widths the UI stores in viewport_width.
ViewportWidths == {12, 80}

\* The queries: "", "a" and "Aa".
SearchQueries == { <<>>, <<97>>, <<65, 97>> }

\* The byte offsets asked of is_current_match.
SearchOffsets == {0, 1, 4}

\* The filtered indices fetched in the session after get_line_matches(idx)
\* on the App `a`: idx becomes the most recent one when it names a line.
Fetched(a, recent, idx) ==
    IF /\ a.search_state # None
       /\ a.storage # None
       /\ idx < Len(a.filtered_indices)
       /\ LogStorage_get_line(a.storage[1], At(a.filtered_indices, idx)) # None
    THEN SelectSeq(recent, LAMBDA k : k # idx) \o <<idx>>
    ELSE recent

\* An operation that leaves the App as `a` and returns `ret`.
SearchFinish(op, arg, a, ret, recent) ==
    /\ ~panicked
    /\ Install(IF a.panicked THEN [app EXCEPT !.panicked = TRUE] ELSE a)
    /\ last' = [op |-> op, arg |-> arg, ret |-> ret, before |-> app,
                recent |-> IF a.panicked THEN last.recent ELSE recent]
    /\ UNCHANGED <<bmh_vars, fold_vars, fl_vars>>

\* App::new(), then set_storage or none, the filters and the viewport width.
SearchInit ==
    /\ \E st \in {None} \cup {Some(lines) : lines \in SearchStores} :
       \E fs \in SearchFilterSets :
       \E width \in ViewportWidths :
           AppIs(update_filtered_logs([App_new EXCEPT !.storage = st,
                                                      !.filters = fs,
                                                      !.viewport_width = width]))
    /\ channel = <<>>
    /\ last = [op |-> "new", arg |-> <<>>, ret |-> <<>>, before |-> app,
               recent |-> <<>>]
    /\ BmhIdle
    /\ FoldIdle
    /\ FlIdle

\* App::init_search_state
SearchStart ==
    \E query \in SearchQueries :
        /\ SearchFinish("init_search_state", query, init_search_state(app, query),
                        <<>>, <<>>)
        /\ UNCHANGED channel

\* App::next_match
SearchNext ==
    /\ SearchFinish("next_match", <<>>, next_match(app), <<>>, last.recent)
    /\ UNCHANGED channel

\* App::prev_match
SearchPrev ==
    /\ SearchFinish("prev_match", <<>>, prev_match(app), <<>>, last.recent)
    /\ UNCHANGED channel

\* App::get_line_matches
SearchLineMatches ==
    \E idx \in 0..MaxProbe :
        /\ idx <= filtered_len(app)
        /\ LET got == get_line_matches(app, idx)
           IN SearchFinish("get_line_matches", idx, got.app, got.ret,
                           Fetched(app, last.recent, idx))
        /\ UNCHANGED channel

\* App::clear_search
SearchClear ==
    /\ SearchFinish("clear_search", <<>>, clear_search(app), <<>>, <<>>)
    /\ UNCHANGED channel

\* App::is_current_match
SearchIsCurrent ==
    \E filtered_idx \in 0..MaxCurrentLine : \E byte_offset \in SearchOffsets :
        /\ SearchFinish("is_current_match", <<filtered_idx, byte_offset>>, app,
                        is_current_match(app, filtered_idx, byte_offset), last.recent)
        /\ UNCHANGED channel

\* App::total_matches
SearchTotal ==
    /\ SearchFinish("total_matches", <<>>, app, total_matches(app), last.recent)
    /\ UNCHANGED channel

\* App::current_match_display
SearchDisplay ==
    /\ SearchFinish("current_match_display", <<>>, app, current_match_display(app),
                    last.recent)
    /\ UNCHANGED channel

\* App::handle_key with l or h in Normal mode: the horizontal scroll by hand.
SearchScrollKey ==
    \E key \in {Key("Char", 108), Key("Char", 104)} :
        /\ mode = "Normal"
        /\ IsChar(key, 108) => horizontal_scroll + 4 <= MaxHScroll
        /\ SearchFinish("handle_key", key, handle_key(app, key), <<>>, last.recent)
        /\ UNCHANGED channel

SearchNextStep ==
    \/ SearchStart
    \/ SearchNext
    \/ SearchPrev
    \/ SearchLineMatches
    \/ SearchClear
    \/ SearchIsCurrent
    \/ SearchTotal
    \/ SearchDisplay
    \/ SearchScrollKey

SpecSearch == SearchInit /\ [][SearchNextStep]_vars

-----------------------------------------------------------------------------
(* Reference notions for the search claims, on an App record `a`.           *)

\* The bytes of filtered line f of the App.
ViewLine(a, f) == At(a.storage[1], At(a.filtered_indices, f))

\* The filtered indices that name a line of the store.
ViewIndices(a) ==
    IF a.storage = None THEN {}
    ELSE {f \in 0..(Len(a.filtered_indices) - 1) :
              At(a.filtered_indices, f) < Len(a.storage[1])}

\* The matches of the pattern P in the view: the pairs <<filtered index,
\* byte offset>> at which P occurs in the ASCII-lowercased bytes of the line.
MatchSet(a, P) ==
    UNION {{<<f, b>> : b \in Occurrences(P, LowerBuf(ViewLine(a, f)))} :
               f \in ViewIndices(a)}

\* The lexicographic order on <<filtered index, byte offset>>.
LexLess(x, y) == x[1] < y[1] \/ (x[1] = y[1] /\ x[2] < y[2])

\* The number of members of S before x: its ordinal in the ordered list.
Rank(S, x) == Cardinality({y \in S : LexLess(y, x)})

\* The bytes of a query, lowercased.
QueryBytes(query) == Utf8(to_lowercase(query))

\* The current position of a session as a pair, and the session's fields.
Session(a) == a.search_state[1]
CurrentPair(a) ==
    <<Session(a).current_position[1].filtered_idx,
      Session(a).current_position[1].byte_offset>>

\* C11: init_search_state(q) with a non-empty q leaves a session whose
\* total_matches is the number of occurrences of the lowercased query in the
\* ASCII-lowercased lines of the filtered view, whose current ordinal is 0 and
\* whose current position is the first match in (filtered index, byte offset)
\* order; with no match the session exists and has no current position.
C11_InitSearchState ==
    (last.op = "init_search_state" /\ last.arg # <<>> /\ ~panicked) =>
        LET M == MatchSet(app, QueryBytes(last.arg))
        IN /\ has_search(app)
           /\ Session(app).total_matches = Cardinality(M)
           /\ Session(app).current_idx = 0
           /\ IF M = {} THEN Session(app).current_position = None
              ELSE /\ Session(app).current_position # None
                   /\ CurrentPair(app) \in M
                   /\ Rank(M, CurrentPair(app)) = 0

\* The query "Aa" has just been searched in a view whose first line holds
\* two overlapping matches.
C11_Witness ==
    /\ last.op = "init_search_state"
    /\ last.arg = <<65, 97>>
    /\ has_search(app)
    /\ Session(app).total_matches = 2
    /\ Session(app).current_position # None
    /\ CurrentPair(app) = <<0, 0>>

\* C12: a session with total_matches > 0 has current_idx < total_matches and
\* a current position; a session with total_matches = 0 has none.
C12_OrdinalInRange ==
    has_search(app) =>
        /\ Session(app).total_matches > 0 =>
               /\ Session(app).current_idx < Session(app).total_matches
               /\ Session(app).current_position # None
        /\ Session(app).total_matches = 0 => Session(app).current_position = None

\* next_match has just reached the last of several matches.
C12_Witness ==
    /\ last.op = "next_match"
    /\ has_search(app)
    /\ Session(app).total_matches >= 2
    /\ Session(app).current_idx = Session(app).total_matches - 1

\* The App after n calls of next_match.
RECURSIVE NextTimes(_, _)
NextTimes(a, n) == IF n = 0 THEN a ELSE NextTimes(next_match(a), n - 1)

\* Two Apps with the same current ordinal and current position.
SameMatch(a, b) ==
    /\ Session(a).current_idx = Session(b).current_idx
    /\ Session(a).current_position = Session(b).current_position

\* C13: with T > 0 matches and ordinal c, next_match sets the ordinal to
\* (c + 1) mod T and prev_match to (c + T - 1) mod T; prev_match after
\* next_match, and next_match after prev_match, restore the ordinal and the
\* position, and T calls of next_match return to the starting match.
C13_NextPrevWrap ==
    (has_search(app) /\ Session(app).total_matches > 0 /\ ~panicked) =>
        LET T == Session(app).total_matches
        IN /\ last.op = "next_match" =>
                  /\ Session(app).current_idx
                         = (Session(last.before).current_idx + 1) % T
                  /\ SameMatch(prev_match(app), last.before)
           /\ last.op = "prev_match" =>
                  /\ Session(app).current_idx
                         = (Session(last.before).current_idx + T - 1) % T
                  /\ SameMatch(next_match(app), last.before)
           /\ SameMatch(NextTimes(app, T), app)

\* prev_match has just wrapped from the first match to the last of several.
C13_Witness ==
    /\ last.op = "prev_match"
    /\ has_search(app)
    /\ Session(app).total_matches >= 2
    /\ Session(last.before).current_idx = 0
    /\ Session(app).current_idx = Session(app).total_matches - 1

\* C14: the current position of a session with matches is the match with
\* ordinal current_idx in (filtered index, byte offset) order, and its
\* match_len is the byte length of the query; a next_match that does not
\* wrap moves to a greater position.
C14_PositionOfOrdinal ==
    (has_search(app) /\ Session(app).total_matches > 0 /\ ~panicked) =>
        LET M == MatchSet(app, QueryBytes(search_query[1]))
        IN /\ Session(app).current_position # None
           /\ CurrentPair(app) \in M
           /\ Rank(M, CurrentPair(app)) = Session(app).current_idx
           /\ Session(app).current_position[1].match_len = Len(Utf8(search_query[1]))
           /\ (last.op = "next_match" /\ Session(app).current_idx > 0) =>
                  LexLess(CurrentPair(last.before), CurrentPair(app))

\* next_match has just moved from a match of one line to the first match of
\* a later line.
C14_Witness ==
    /\ last.op = "next_match"
    /\ has_search(app)
    /\ Session(app).current_position # None
    /\ Session(last.before).current_position # None
    /\ CurrentPair(app)[1] > CurrentPair(last.before)[1]
    /\ Session(app).current_idx >= 2

-----------------------------------------------------------------------------
(* SpecCache: a session over a store with two more lines than the match     *)
(* cache holds, under get_line_matches.  The history `last` is as in        *)
(* SpecSearch.                                                              *)

MaxCacheSteps == 1

\* Line i of the store: "a", "ba" or "b", in turn.
CacheLines ==
    [i \in 1..(MatchCacheCapacity + 2) |->
        CASE i % 3 = 1 -> <<97>>
          [] i % 3 = 2 -> <<98, 97>>
          [] OTHER -> <<98>>]

\* The filtered indices the cache of the App holds.
CachedKeys(a) ==
    {Session(a).match_cache[k][1] : k \in 1..Len(Session(a).match_cache)}

\* The filtered indices asked of get_line_matches: the index past the view,
\* the first line the cache does not hold, and the first line again once the
\* session has fetched as many lines as the cache holds.
CacheProbes ==
    {filtered_len(app)}
        \cup (IF has_search(app)
              THEN LET missing == (0..(filtered_len(app) - 1)) \ CachedKeys(app)
                   IN IF missing = {} THEN {}
                      ELSE {CHOOSE i \in missing : \A j \in missing : i <= j}
              ELSE {})
        \cup (IF Len(last.recent) = MatchCacheCapacity THEN {0} ELSE {})

\* The App that App::new(), set_storage(lines) with no filter and
\* init_search_state(query) leave: every line is in the view, the session
\* counts the matches of the view, its cache is empty, and jump_to_match(0)
\* has moved to the first match.
SessionOver(lines, query) ==
    LET a0 == [App_new EXCEPT !.storage = Some(lines),
                              !.filtered_indices = [i \in 1..Len(lines) |-> i - 1]]
        pattern_bytes == SearchMatcherPattern(query)
        M == MatchSet(a0, pattern_bytes)
        first == CHOOSE m \in M : Rank(M, m) = 0
        state == [query            |-> to_lowercase(query),
                  matcher_pattern  |-> pattern_bytes,
                  current_idx      |-> 0,
                  current_position |->
                      IF M = {} THEN None
                      ELSE Some([filtered_idx |-> first[1],
                                 byte_offset  |-> first[2],
                                 match_len    |-> Len(pattern_bytes)]),
                  total_matches    |-> Cardinality(M),
                  match_cache      |-> <<>>]
        a1 == [a0 EXCEPT !.search_state = Some(state),
                         !.search_query = Some(query)]
    IN IF M = {} THEN a1 ELSE jump_to_match(a1, 0)

\* A session on "a" has just been opened over the store.
CacheInit ==
    /\ AppIs(SessionOver(CacheLines, <<97>>))
    /\ channel = <<>>
    /\ last = [op |-> "init_search_state", arg |-> <<97>>, ret |-> <<>>,
               before |-> app, recent |-> <<>>]
    /\ BmhIdle
    /\ FoldIdle
    /\ FlIdle

\* App::get_line_matches
CacheFetch ==
    \E idx \in CacheProbes :
        /\ LET got == get_line_matches(app, idx)
           IN SearchFinish("get_line_matches", idx, got.app, got.ret,
                           Fetched(app, last.recent, idx))
        /\ UNCHANGED channel

\* App::next_match, for the first matches.
CacheNext ==
    /\ has_search(app)
    /\ Session(app).current_idx < MaxCacheSteps
    /\ SearchFinish("next_match", <<>>, next_match(app), <<>>, last.recent)
    /\ UNCHANGED channel

\* App::prev_match, back from a match that is not the first.
CachePrev ==
    /\ has_search(app)
    /\ Session(app).current_idx > 0
    /\ SearchFinish("prev_match", <<>>, prev_match(app), <<>>, last.recent)
    /\ UNCHANGED channel

CacheNextStep ==
    \/ CacheFetch
    \/ CacheNext
    \/ CachePrev

SpecCache == CacheInit /\ [][CacheNextStep]_vars

\* The spans of the pattern P in a line: <<start, end>> of each occurrence in
\* the ASCII-lowercased bytes, in ascending order.
SpansOf(P, line) ==
    LET occ == Occurrences(P, LowerBuf(line))
    IN [k \in 1..Cardinality(occ) |->
           LET b == CHOOSE x \in occ : Cardinality({y \in occ : y < x}) = k - 1
           IN <<b, b + Len(P)>>]

\* The number of spans get_line_matches returns over all the filtered lines.
SpanCount(a) ==
    Cardinality(UNION {{<<f, k>> : k \in 1..Len(get_line_matches(a, f).ret)} :
                           f \in 0..(filtered_len(a) - 1)})

\* C15: within a session, whatever the cache holds, get_line_matches(i) for
\* a filtered index i of the view returns the spans of the query in the
\* ASCII-lowercased bytes of filtered line i, and the numbers of spans of
\* all filtered lines sum to total_matches.
C15_CacheTransparent ==
    has_search(app) =>
        /\ (last.op = "get_line_matches" /\ has_search(last.before)
                /\ last.arg < filtered_len(app)) =>
               last.ret = SpansOf(QueryBytes(search_query[1]), ViewLine(app, last.arg))
        /\ \A i \in ViewIndices(app) :
               get_line_matches(app, i).ret
                   = SpansOf(QueryBytes(search_query[1]), ViewLine(app, i))
        /\ SpanCount(app) = Session(app).total_matches

\* get_line_matches has just scanned again, and found a span in, a line whose
\* entry the full cache had evicted.
C15_Witness ==
    /\ last.op = "get_line_matches"
    /\ last.arg = 0
    /\ has_search(last.before)
    /\ Len(Session(last.before).match_cache) = MatchCacheCapacity
    /\ LruIndex(Session(last.before).match_cache, last.arg) = 0
    /\ LruIndex(Session(app).match_cache, last.arg) # 0
    /\ last.ret # <<>>

\* The last n members of a sequence.
LastOf(seq, n) ==
    IF Len(seq) <= n THEN seq ELSE SubSeq(seq, Len(seq) - n + 1, Len(seq))

\* C16: the match cache never holds more than 100 entries, every key in it
\* is a filtered index of the view, and its keys are the 100 most recently
\* fetched ones: a put into a full cache evicts the least recently used entry.
C16_CacheBounded ==
    has_search(app) =>
        LET cache == Session(app).match_cache
        IN /\ Len(cache) <= 100
           /\ \A k \in 1..Len(cache) : cache[k][1] < filtered_len(app)
           /\ [k \in 1..Len(cache) |-> cache[k][1]] = LastOf(last.recent, 100)

\* The cache is full and has just evicted its least recently used entry for
\* a new key.
C16_Witness ==
    /\ last.op = "get_line_matches"
    /\ has_search(last.before)
    /\ Len(Session(last.before).match_cache) = 100
    /\ Len(Session(app).match_cache) = 100
    /\ LruIndex(Session(last.before).match_cache, last.arg) = 0
    /\ LruIndex(Session(app).match_cache, last.arg) = 100
    /\ LruIndex(Session(app).match_cache,
                Session(last.before).match_cache[1][1]) = 0

\* C17: init_search_state leaves an empty match cache; next_match, prev_match,
\* is_current_match, total_matches and current_match_display leave the cache
\* as it was; a get_line_matches for an index that names no line of the view
\* leaves it as it was.
C17_CacheOnlyByGetLineMatches ==
    (has_search(app) /\ ~panicked) =>
        /\ last.op = "init_search_state" => Session(app).match_cache = <<>>
        /\ (last.op \in {"next_match", "prev_match", "is_current_match",
                          "total_matches", "current_match_display"}
                /\ has_search(last.before)) =>
               Session(app).match_cache = Session(last.before).match_cache
        /\ (last.op = "get_line_matches" /\ last.arg \notin ViewIndices(app)) =>
               /\ Session(app).match_cache = Session(last.before).match_cache
               /\ last.ret = <<>>

\* next_match has just moved the current match of a session whose cache
\* holds an entry.
C17_Witness ==
    /\ last.op = "next_match"
    /\ has_search(app)
    /\ has_search(last.before)
    /\ Session(app).match_cache # <<>>
    /\ Session(app).current_idx # Session(last.before).current_idx

\* C18: is_current_match(f, b) is FALSE with no session or no current
\* position, and otherwise TRUE exactly when f and b are the filtered index
\* and byte offset of the current position; of the matches of the view one
\* is current when total_matches > 0, and none when it is 0.
C18_IsCurrentMatch ==
    /\ last.op = "is_current_match" =>
           last.ret = (/\ has_search(app)
                       /\ Session(app).current_position # None
                       /\ CurrentPair(app) = last.arg)
    /\ (has_search(app) /\ ~panicked) =>
           LET M == MatchSet(app, QueryBytes(search_query[1]))
               current == {m \in M : is_current_match(app, m[1], m[2])}
           IN /\ Session(app).total_matches = Cardinality(M)
              /\ Cardinality(current) = IF Session(app).total_matches > 0 THEN 1 ELSE 0

\* is_current_match has just answered TRUE for a match that is not the first
\* of its line, and FALSE is its answer for the first match of that line.
C18_Witness ==
    /\ last.op = "is_current_match"
    /\ last.ret = TRUE
    /\ last.arg[2] > 0
    /\ ~is_current_match(app, last.arg[1], 0)
    /\ <<last.arg[1], 0>> \in MatchSet(app, QueryBytes(search_query[1]))

-----------------------------------------------------------------------------
(* SpecScroll: the horizontal auto-scroll of jump_to_match as a function of  *)
(* the match, the scroll before it and the viewport width, on one line of    *)
(* ASCII text.  The history `last` is as in SpecSearch; its argument is the *)
(* byte offset and the byte length of the match.                            *)

MaxScrollCol == 16
MaxScrollStart == 6
MaxMatchLen == 2

\* The store: one line of MaxScrollCol letters "a".
ScrollLines == << [i \in 1..MaxScrollCol |-> 97] >>

\* The widths the UI stores in viewport_width, some of them under the margin.
ScrollWidths == {0, 5, 10, 12}

\* App::new() and set_storage, with the scroll and width the keys and the UI
\* have set.
ScrollInit ==
    /\ \E scroll \in 0..MaxScrollStart : \E width \in ScrollWidths :
           AppIs(set_storage([App_new EXCEPT !.horizontal_scroll = scroll,
                                             !.viewport_width = width],
                             ScrollLines))
    /\ channel = <<>>
    /\ last = [op |-> "new", arg |-> <<>>, ret |-> <<>>, before |-> app,
               recent |-> <<>>]
    /\ BmhIdle
    /\ FoldIdle
    /\ FlIdle

\* The auto-scroll of jump_to_match for a match of the line.
ScrollJump ==
    \E byte_offset \in 0..(MaxScrollCol - 1) : \E match_len \in 1..MaxMatchLen :
        /\ byte_offset + match_len <= MaxScrollCol
        /\ SearchFinish("auto_scroll", <<byte_offset, match_len>>,
                        HorizontalAutoScroll(app, [filtered_idx |-> 0,
                                                   byte_offset  |-> byte_offset,
                                                   match_len    |-> match_len]),
                        <<>>, <<>>)
        /\ UNCHANGED channel

ScrollNextStep == ScrollJump

SpecScroll == ScrollInit /\ [][ScrollNextStep]_vars

\* C19: for a match with character start s and character end e, the scroll h
\* before the jump and the viewport width w, the new scroll is max(0, s - 10)
\* when s < h, else max(0, e + 10 - w) when e > h + w - 10, else h; also
\* for w < 10.
C19_AutoScroll ==
    last.op = "auto_scroll" =>
        LET s == last.arg[1]
            e == last.arg[1] + last.arg[2]
            h == last.before.horizontal_scroll
            w == last.before.viewport_width
        IN /\ ~panicked
           /\ horizontal_scroll =
                  IF s < h THEN Max(0, s - 10)
                  ELSE IF e > h + w - 10 THEN Max(0, e + 10 - w)
                  ELSE h

\* A viewport narrower than the margin has just scrolled right to a match.
C19_Witness ==
    /\ last.op = "auto_scroll"
    /\ last.before.viewport_width < 10
    /\ last.arg[1] >= last.before.horizontal_scroll
    /\ horizontal_scroll = last.arg[1] + last.arg[2] + 10 - last.before.viewport_width
    /\ horizontal_scroll # last.before.horizontal_scroll

\* C20: after a next_match or prev_match that resolves a match, the
\* characters [s, e) of the match are inside the visible columns
\* [scroll, scroll + viewport_width) and at neither edge: s > scroll unless
\* scroll = 0, and e < scroll + viewport_width.
C20_MatchInsideMargins ==
    (/\ last.op \in {"next_match", "prev_match"}
     /\ ~panicked
     /\ has_search(app)
     /\ Session(app).current_position # None) =>
        LET position == Session(app).current_position[1]
            s == byte_to_char_offset(
                     from_utf8_lossy(ViewLine(app, position.filtered_idx)),
                     position.byte_offset)
            e == s + position.match_len
        IN /\ s >= horizontal_scroll
           /\ horizontal_scroll # 0 => s > horizontal_scroll
           /\ e < horizontal_scroll + viewport_width

-----------------------------------------------------------------------------
(* SpecIndex: one App whose store is set and replaced while a search        *)
(* session is open, under the queries by index.  The history `last` is as   *)
(* in SpecSearch.                                                           *)

MaxIndex == 3

\* The stores: the lines "a", "ba", "a"; and the one line "b".
IndexStores == { << <<97>>, <<98, 97>>, <<97>> >>, << <<98>> >> }

\* App::new()
IndexInit ==
    /\ AppIs(App_new)
    /\ channel = <<>>
    /\ last = [op |-> "new", arg |-> <<>>, ret |-> <<>>, before |-> app,
               recent |-> <<>>]
    /\ BmhIdle
    /\ FoldIdle
    /\ FlIdle

\* App::set_storage
IndexSetStorage ==
    \E lines \in IndexStores :
        /\ SearchFinish("set_storage", lines, set_storage(app, lines), <<>>, <<>>)
        /\ UNCHANGED channel

\* App::init_search_state("a")
IndexStart ==
    /\ SearchFinish("init_search_state", <<97>>, init_search_state(app, <<97>>),
                    <<>>, <<>>)
    /\ UNCHANGED channel

\* App::clear_search
IndexClear ==
    /\ has_search(app)
    /\ SearchFinish("clear_search", <<>>, clear_search(app), <<>>, <<>>)
    /\ UNCHANGED channel

\* App::get_line
IndexGetLine ==
    \E idx \in 0..MaxIndex :
        /\ SearchFinish("get_line", idx, app, App_get_line(app, idx), <<>>)
        /\ UNCHANGED channel

\* App::get_filtered_entry
IndexFilteredEntry ==
    \E idx \in 0..MaxIndex :
        /\ SearchFinish("get_filtered_entry", idx, app, get_filtered_entry(app, idx),
                        <<>>)
        /\ UNCHANGED channel

\* App::get_line_matches
IndexLineMatches ==
    \E idx \in 0..MaxIndex :
        /\ LET got == get_line_matches(app, idx)
           IN SearchFinish("get_line_matches", idx, got.app, got.ret, <<>>)
        /\ UNCHANGED channel

IndexNextStep ==
    \/ IndexSetStorage
    \/ IndexStart
    \/ IndexClear
    \/ IndexGetLine
    \/ IndexFilteredEntry
    \/ IndexLineMatches

SpecIndex == IndexInit /\ [][IndexNextStep]_vars

\* C21: an index out of range is answered with no element and no crash:
\* get_line(idx) is None for idx >= len(), get_filtered_entry(idx) is None
\* for idx >= filtered_len(), and get_line_matches(idx) is the empty list for
\* idx >= filtered_len(), without a session and without a store.
C21_InvalidIndexNoElement ==
    /\ ~panicked
    /\ (last.op = "get_line"
            /\ (storage = None \/ last.arg >= LogStorage_len(storage[1]))) =>
           last.ret = None
    /\ (last.op = "get_filtered_entry" /\ last.arg >= filtered_len(app)) =>
           last.ret = None
    /\ (last.op = "get_line_matches"
            /\ \/ last.arg >= filtered_len(last.before)
               \/ ~has_search(last.before)
               \/ last.before.storage = None) =>
           last.ret = <<>>

-----------------------------------------------------------------------------
(* SpecLossy: search navigation over a store of one line whose bytes need   *)
(* not be valid UTF-8.  The history `last` is as in SpecSearch.             *)

MaxLossyLen == 3

\* The bytes of the line: "a", a continuation byte and a lead byte
\* (0xC3 0x80 is a valid two-byte char; each alone is invalid).
LossyBytes == {97, 128, 195}

LossyLines == SeqsUpTo(LossyBytes, MaxLossyLen) \ {<<>>}

\* App::new() and set_storage.
LossyInit ==
    /\ \E line \in LossyLines : AppIs(set_storage(App_new, <<line>>))
    /\ channel = <<>>
    /\ last = [op |-> "new", arg |-> <<>>, ret |-> <<>>, before |-> app,
               recent |-> <<>>]
    /\ BmhIdle
    /\ FoldIdle
    /\ FlIdle

\* App::init_search_state("a")
LossyStart ==
    /\ SearchFinish("init_search_state", <<97>>, init_search_state(app, <<97>>),
                    <<>>, <<>>)
    /\ UNCHANGED channel

\* App::next_match
LossyNext ==
    /\ SearchFinish("next_match", <<>>, next_match(app), <<>>, <<>>)
    /\ UNCHANGED channel

\* App::prev_match
LossyPrev ==
    /\ SearchFinish("prev_match", <<>>, prev_match(app), <<>>, <<>>)
    /\ UNCHANGED channel

LossyNextStep ==
    \/ LossyStart
    \/ LossyNext
    \/ LossyPrev

SpecLossy == LossyInit /\ [][LossyNextStep]_vars

\* C22: init_search_state, next_match and prev_match complete on every line
\* content: the bytes [byte_offset, byte_offset + match_len) of the match
\* found in the raw line are in bounds of the lossy text of the line and on
\* its char boundaries, so that jump_to_match can slice it.
C22_NavigationTotal ==
    /\ ~panicked
    /\ (has_search(app) /\ Session(app).current_position # None) =>
           LET position == Session(app).current_position[1]
               line_text == from_utf8_lossy(ViewLine(app, position.filtered_idx))
           IN /\ position.byte_offset + position.match_len <= StrLen(line_text)
              /\ is_char_boundary(line_text, position.byte_offset)
              /\ is_char_boundary(line_text,
                                  position.byte_offset + position.match_len)

-----------------------------------------------------------------------------
(* LogStorage with its mapped files and line records, log_storage.rs.  A    *)
(* store is [mmaps |-> the bytes of each mapped file, lines |-> the line    *)
(* records]; a line record is [file_index, offset, length].  The timestamp  *)
(* of a record is left out.  LogStorage_get_line above is get_line on the   *)
(* lines of a store seen as a list of their bytes.                          *)

\* LineInfo::with_timestamp
LineInfo_with_timestamp(file_index, offset, length) ==
    [file_index |-> file_index, offset |-> offset, length |-> length]

\* `for &byte in mmap.iter()` of build_line_index: the records pushed and the
\* start of the line the scan is in.
RECURSIVE IndexLoop(_, _, _, _, _)
IndexLoop(mmap, file_index, offset, line_start, lines) ==
    IF offset >= Len(mmap) THEN [lines |-> lines, line_start |-> line_start]
    ELSE IF At(mmap, offset) = 10
    THEN IndexLoop(mmap, file_index, offset + 1, offset + 1,
                   Append(lines, LineInfo_with_timestamp(file_index, line_start,
                                                         offset - line_start)))
    ELSE IndexLoop(mmap, file_index, offset + 1, line_start, lines)

\* A build_line_index that records the terminated lines only.
build_line_index_no_tail(mmap, file_index) ==
    IndexLoop(mmap, file_index, 0, 0, <<>>).lines

\* LogStorage::build_line_index
build_line_index(mmap, file_index) ==
    LET scanned == IndexLoop(mmap, file_index, 0, 0, <<>>)
    IN IF scanned.line_start < Len(mmap)
       THEN Append(scanned.lines,
                   LineInfo_with_timestamp(file_index, scanned.line_start,
                                           Len(mmap) - scanned.line_start))
       ELSE scanned.lines

\* LogStorage::empty
LogStorage_empty == [mmaps |-> <<>>, lines |-> <<>>]

\* LogStorage::from_file, for a file that opens and maps, with its bytes.
LogStorage_from_file(content) ==
    [mmaps |-> <<content>>, lines |-> build_line_index(content, 0)]

\* LogStorage::len and LogStorage::file_count of a store.
Store_len(store) == Len(store.lines)
Store_file_count(store) == Len(store.mmaps)

\* LogStorage::get_line of a store: [panicked, line], None when the index or
\* the file_index of the record names nothing; slicing the mapped file past
\* its end panics.
Store_get_line(store, idx) ==
    IF idx >= Len(store.lines) THEN [panicked |-> FALSE, line |-> None]
    ELSE LET info == At(store.lines, idx)
         IN IF info.file_index >= Len(store.mmaps)
            THEN [panicked |-> FALSE, line |-> None]
            ELSE LET mmap == At(store.mmaps, info.file_index)
                     start == info.offset
                     end == start + info.length
                 IN IF end > Len(mmap) THEN [panicked |-> TRUE, line |-> None]
                    ELSE [panicked |-> FALSE,
                          line |-> Some(SubSeq(mmap, start + 1, end))]

\* A merge loop that leaves the file_index of every record as it was.
RECURSIVE MergeLoopKeepIndex(_, _, _, _)
MergeLoopKeepIndex(storages, file_idx, mmaps, lines) ==
    IF file_idx >= Len(storages) THEN [mmaps |-> mmaps, lines |-> lines]
    ELSE LET part == At(storages, file_idx)
         IN MergeLoopKeepIndex(storages, file_idx + 1, mmaps \o part.mmaps,
                               lines \o part.lines)

\* `for (file_idx, storage) in storages.into_iter().enumerate()` of merge:
\* the mmaps of the part are appended, and every record of the part is
\* pushed with file_index = file_idx.
RECURSIVE MergeLoop(_, _, _, _)
MergeLoop(storages, file_idx, mmaps, lines) ==
    IF file_idx >= Len(storages) THEN [mmaps |-> mmaps, lines |-> lines]
    ELSE LET part == At(storages, file_idx)
         IN MergeLoop(storages, file_idx + 1, mmaps \o part.mmaps,
                      lines \o [k \in 1..Len(part.lines) |->
                                   LineInfo_with_timestamp(file_idx,
                                                           part.lines[k].offset,
                                                           part.lines[k].length)])

\* LogStorage::merge
LogStorage_merge(storages) ==
    IF storages = <<>> THEN LogStorage_empty
    ELSE MergeLoop(storages, 0, <<>>, <<>>)

-----------------------------------------------------------------------------
(* SpecStorage: one LogStorage, built by from_file, empty and merge, and    *)
(* read by get_line.  The variable storage holds the store; the history     *)
(* `last` is as in SpecSearch, with the inputs of the operation as its      *)
(* argument.                                                                *)

MaxFileLen == 3
MaxFiles == 3
MaxLineIdx == 3

\* The bytes of a file: "\n", "a" and "b".
FileBytes == {10, 97, 98}

\* The files given to from_file.
Files == SeqsUpTo(FileBytes, MaxFileLen)

\* The files of the stores that are merged: the empty file, "a\nb" and "b\n".
MergeFiles == { <<>>, <<97, 10, 98>>, <<98, 10>> }

\* The stores merged with the store: the empty store and one per file.
MergeParts == {LogStorage_empty} \cup {LogStorage_from_file(content) : content \in MergeFiles}

\* The stores given to merge: the parts and every merge of two parts.
MergeInputs == MergeParts \cup {LogStorage_merge(<<first, second>>) : first, second \in MergeParts}

\* The store of the state.
TheStore == storage[1]

\* The store an operation leaves in the state.
WithStore(store) == [app EXCEPT !.storage = Some(store)]

\* The constructors take no store of the state, so one is run when the store
\* of the state is the empty one, or to make it the empty one.
Builds(store) == TheStore = LogStorage_empty \/ store = LogStorage_empty

\* LogStorage::empty()
StorageInit ==
    /\ AppIs([App_new EXCEPT !.storage = Some(LogStorage_empty)])
    /\ channel = <<>>
    /\ last = [op |-> "empty", arg |-> <<>>, ret |-> <<>>, before |-> app,
               recent |-> <<>>]
    /\ BmhIdle
    /\ FoldIdle
    /\ FlIdle

\* LogStorage::empty()
StorageEmpty ==
    /\ SearchFinish("empty", <<>>, WithStore(LogStorage_empty), <<>>, <<>>)
    /\ UNCHANGED channel

\* LogStorage::from_file
StorageFromFile ==
    \E content \in Files :
        /\ Builds(LogStorage_from_file(content))
        /\ SearchFinish("from_file", content, WithStore(LogStorage_from_file(content)), <<>>, <<>>)
        /\ UNCHANGED channel

\* LogStorage::merge of the stores from_file gives for a list of files.
StorageMergeFiles ==
    \E files \in SeqsUpTo(MergeFiles, MaxFiles) :
        LET merged == LogStorage_merge([f \in 1..Len(files) |-> LogStorage_from_file(files[f])])
        IN /\ Builds(merged)
           /\ SearchFinish("merge_files", files, WithStore(merged), <<>>, <<>>)
           /\ UNCHANGED channel

\* LogStorage::merge of two stores, each the empty store, the store of one
\* file or the merge of two of these.
StorageMerge ==
    \E first \in MergeInputs : \E second \in MergeInputs :
        /\ Builds(LogStorage_merge(<<first, second>>))
        /\ SearchFinish("merge", <<first, second>>, WithStore(LogStorage_merge(<<first, second>>)), <<>>, <<>>)
        /\ UNCHANGED channel

\* LogStorage::get_line
StorageGetLine ==
    \E idx \in 0..MaxLineIdx :
        LET got == Store_get_line(TheStore, idx)
        IN /\ SearchFinish("get_line", idx, [app EXCEPT !.panicked = got.panicked],
                           got.line, <<>>)
           /\ UNCHANGED channel

StorageNextStep ==
    \/ StorageEmpty
    \/ StorageFromFile
    \/ StorageMergeFiles
    \/ StorageMerge
    \/ StorageGetLine

SpecStorage == StorageInit /\ [][StorageNextStep]_vars

\* C23: build_line_index gives one record for each "\n"-terminated span and
\* one for a non-empty tail without "\n": that many records, the first at
\* offset 0, each next one at the offset after the "\n" of the one before,
\* none with a "\n" in its bytes, and none for an empty file.
C23_LineIndex ==
    last.op = "from_file" =>
        LET content == last.arg
            records == TheStore.lines
            newlines == {i \in 1..Len(content) : content[i] = 10}
            tail == IF content # <<>> /\ content[Len(content)] # 10 THEN 1 ELSE 0
        IN /\ Len(records) = Cardinality(newlines) + tail
           /\ content = <<>> => records = <<>>
           /\ records # <<>> => records[1].offset = 0
           /\ \A k \in 1..(Len(records) - 1) :
                  /\ records[k + 1].offset = records[k].offset + records[k].length + 1
                  /\ records[k + 1].offset > records[k].offset
           /\ \A k \in 1..Len(records) :
                  /\ records[k].offset + records[k].length <= Len(content)
                  /\ \A i \in (records[k].offset + 1)..(records[k].offset + records[k].length) :
                         content[i] # 10

\* from_file has just indexed a file with a terminated line, an empty line
\* and a tail without "\n".
C23_Witness ==
    /\ last.op = "from_file"
    /\ Len(last.arg) = 3
    /\ last.arg[3] # 10
    /\ Len(TheStore.lines) = 2
    /\ TheStore.lines[1].length = 1

\* C24: in every store built by from_file, empty and merge, nested merges and
\* merges of the empty store included, every line record names a mapped
\* file of the store (file_index < file_count()) and lies inside that file
\* (offset + length <= the length of the file).
C24_RecordsInBounds ==
    \A k \in 1..Len(TheStore.lines) :
        LET info == TheStore.lines[k]
        IN /\ info.file_index < Store_file_count(TheStore)
           /\ info.offset + info.length <= Len(At(TheStore.mmaps, info.file_index))

\* C25: merge([A, B]) has A.len() + B.len() lines, and its get_line(k) is
\* line k of A for k < A.len() and line k - A.len() of B after that, for all
\* stores A and B, empty or merged ones included.
C25_MergeConcatenates ==
    last.op = "merge" =>
        LET first == last.arg[1]
            second == last.arg[2]
        IN /\ Store_len(TheStore) = Store_len(first) + Store_len(second)
           /\ \A k \in 0..(Store_len(TheStore) - 1) :
                  Store_get_line(TheStore, k) =
                      IF k < Store_len(first) THEN Store_get_line(first, k)
                      ELSE Store_get_line(second, k - Store_len(first))

\* The lines of the files before file f of a list of files.
RECURSIVE LinesBefore(_, _)
LinesBefore(files, f) ==
    IF f <= 1 THEN 0
    ELSE LinesBefore(files, f - 1) + Len(build_line_index(files[f - 1], 0))

\* C26: in the merge of N stores from_file built, line j of file f is line
\* (lines of the files before f) + j of the merge, and get_line of it gives
\* the bytes [offset, offset + length) of file f, for every file f.
C26_MergedFilesRead ==
    last.op = "merge_files" =>
        \A f \in 1..Len(last.arg) :
            LET records == build_line_index(last.arg[f], 0)
            IN \A j \in 0..(Len(records) - 1) :
                   Store_get_line(TheStore, LinesBefore(last.arg, f) + j) =
                       [panicked |-> FALSE,
                        line |-> Some(SubSeq(last.arg[f], At(records, j).offset + 1,
                                             At(records, j).offset + At(records, j).length))]

\* Three files were merged, the third has lines and is not the first file.
C26_Witness ==
    /\ last.op = "merge_files"
    /\ Len(last.arg) = MaxFiles
    /\ last.arg[1] = <<97, 10, 98>>
    /\ last.arg[3] = <<98, 10>>
    /\ Store_get_line(TheStore, Store_len(TheStore) - 1).line = Some(<<98>>)

-----------------------------------------------------------------------------
(* LogLoader, storage/loader.rs.  A path is [tag |-> "Missing"] (exists()   *)
(* is false), [tag |-> "Unreadable"] (it exists and from_file fails) or     *)
(* [tag |-> "File", content |-> its bytes].  A loader is [loaded_count,     *)
(* total_files].                                                            *)

MaxPaths == 3

\* LogLoader::new
LogLoader_new(total_files) == [loaded_count |-> 0, total_files |-> total_files]

\* create_loader
create_loader(paths) == LogLoader_new(Len(paths))

\* A loop of load_logs that gives up at the first file that fails to load.
RECURSIVE LoadLoopAbort(_, _, _, _, _)
LoadLoopAbort(paths, i, storages, total_lines, loaded_count) ==
    IF i >= Len(paths)
    THEN [ok |-> TRUE, storages |-> storages, total_lines |-> total_lines,
          loaded_count |-> loaded_count]
    ELSE LET path == At(paths, i)
         IN IF path.tag = "Missing"
            THEN LoadLoopAbort(paths, i + 1, storages, total_lines, loaded_count)
            ELSE IF path.tag = "File"
            THEN LET part == LogStorage_from_file(path.content)
                 IN LoadLoopAbort(paths, i + 1, Append(storages, part),
                                  total_lines + Store_len(part), loaded_count + 1)
            ELSE [ok |-> FALSE, storages |-> <<>>, total_lines |-> 0,
                  loaded_count |-> loaded_count]

\* `for path in paths` of load_logs: a missing path is skipped by `continue`,
\* before the progress update; a path that exists is loaded, kept when the
\* load succeeds, and counted in loaded_count either way.
RECURSIVE LoadLoop(_, _, _, _, _)
LoadLoop(paths, i, storages, total_lines, loaded_count) ==
    IF i >= Len(paths)
    THEN [ok |-> TRUE, storages |-> storages, total_lines |-> total_lines,
          loaded_count |-> loaded_count]
    ELSE LET path == At(paths, i)
         IN IF path.tag = "Missing"
            THEN LoadLoop(paths, i + 1, storages, total_lines, loaded_count)
            ELSE IF path.tag = "File"
            THEN LET part == LogStorage_from_file(path.content)
                 IN LoadLoop(paths, i + 1, Append(storages, part),
                             total_lines + Store_len(part), loaded_count + 1)
            ELSE LoadLoop(paths, i + 1, storages, total_lines, loaded_count + 1)

\* LogLoader::load_logs: the loader it leaves and its result, Ok of the
\* stores and the LoadStat.
load_logs(loader, paths) ==
    LET done == LoadLoop(paths, 0, <<>>, 0, loader.loaded_count)
    IN [loader |-> [loader EXCEPT !.loaded_count = done.loaded_count],
        ok |-> done.ok,
        storages |-> done.storages,
        stat |-> [total_files |-> loader.total_files,
                  loaded_files |-> Len(done.storages),
                  total_lines |-> done.total_lines]]

\* LogLoader::progress
LogLoader_progress(loader) == <<loader.loaded_count, loader.total_files>>

\* LogLoader::is_complete
LogLoader_is_complete(loader) == loader.loaded_count >= loader.total_files

-----------------------------------------------------------------------------
(* SpecLoader: a loader made by create_loader for a list of paths, run by   *)
(* load_logs on these paths and asked for its progress.  The history `last` *)
(* holds the paths as its argument and the loader in its field `recent`.    *)

\* The files of the paths: the empty file, "a\nb" and "b\n".
PathKinds == {[tag |-> "Missing"], [tag |-> "Unreadable"]} \cup {[tag |-> "File", content |-> content] : content \in MergeFiles}

\* The loader of the state and the paths it was made for.
TheLoader == last.recent
ThePaths == last.arg

\* create_loader(paths)
LoaderInit ==
    /\ AppIs(App_new)
    /\ channel = <<>>
    /\ \E paths \in SeqsUpTo(PathKinds, MaxPaths) :
           last = [op |-> "create_loader", arg |-> paths, ret |-> <<>>,
                   before |-> app, recent |-> create_loader(paths)]
    /\ BmhIdle
    /\ FoldIdle
    /\ FlIdle

\* loader.load_logs(paths), once.
LoaderLoadLogs ==
    /\ last.op = "create_loader"
    /\ LET done == load_logs(TheLoader, ThePaths)
       IN SearchFinish("load_logs", ThePaths, app,
                       [ok |-> done.ok, storages |-> done.storages, stat |-> done.stat],
                       done.loader)
    /\ UNCHANGED channel

\* loader.progress()
LoaderProgress ==
    /\ last.op \in {"create_loader", "load_logs"}
    /\ SearchFinish("progress", ThePaths, app, LogLoader_progress(TheLoader), TheLoader)
    /\ UNCHANGED channel

\* loader.is_complete()
LoaderIsComplete ==
    /\ last.op \in {"create_loader", "load_logs"}
    /\ SearchFinish("is_complete", ThePaths, app, LogLoader_is_complete(TheLoader), TheLoader)
    /\ UNCHANGED channel

LoaderNextStep ==
    \/ LoaderLoadLogs
    \/ LoaderProgress
    \/ LoaderIsComplete

SpecLoader == LoaderInit /\ [][LoaderNextStep]_vars

\* The paths of a list that load: the ones that exist and map.
LoadedPaths(paths) == SelectSeq(paths, LAMBDA path : path.tag = "File")

\* The lines of the first n stores of a list.
RECURSIVE LinesOfStores(_, _)
LinesOfStores(stores, n) ==
    IF n = 0 THEN 0 ELSE LinesOfStores(stores, n - 1) + Store_len(stores[n])

\* C27: load_logs never fails on a missing or failing path: it returns Ok
\* with one store for each path that loaded, in the order of the paths,
\* loaded_files = the number of these stores and total_lines = the sum of
\* their line counts.
C27_LoadLogsSkipsFailures ==
    last.op = "load_logs" =>
        LET loaded == LoadedPaths(ThePaths)
        IN /\ last.ret.ok
           /\ last.ret.storages = [k \in 1..Len(loaded) |-> LogStorage_from_file(loaded[k].content)]
           /\ last.ret.stat.loaded_files = Len(loaded)
           /\ last.ret.stat.total_lines = LinesOfStores(last.ret.storages, Len(loaded))

\* load_logs has run over a missing path, a path that fails to load and a
\* file with two lines after them.
C27_Witness ==
    /\ last.op = "load_logs"
    /\ ThePaths = <<[tag |-> "Missing"], [tag |-> "Unreadable"],
                    [tag |-> "File", content |-> <<97, 10, 98>>]>>
    /\ last.ret.stat.loaded_files = 1
    /\ last.ret.stat.total_lines = 2

-----------------------------------------------------------------------------
(* SpecReceive: the App side of loading.  start_loading opens the channel,  *)
(* the loader thread sends stores on it, check_for_loaded_logs (run by      *)
(* ui::draw on every frame) drains it and finish_loading closes it.  The    *)
(* field `recent` of the history holds the lines of every store received    *)
(* since start_loading, in the order of arrival.                            *)

MaxSent == 3

\* The stores the loader thread sends.
SentStores == { << <<97>> >>, << <<98>>, <<97>> >> }

\* The lines of a list of stores, in order.
RECURSIVE LinesOfAll(_)
LinesOfAll(stores) ==
    IF stores = <<>> THEN <<>> ELSE Head(stores) \o LinesOfAll(Tail(stores))

\* App::new()
ReceiveInit ==
    /\ AppIs(App_new)
    /\ channel = <<>>
    /\ last = [op |-> "new", arg |-> <<>>, ret |-> <<>>, before |-> app, recent |-> <<>>]
    /\ BmhIdle
    /\ FoldIdle
    /\ FlIdle

\* App::start_loading, when no loading is under way.
ReceiveStart ==
    /\ ~log_receiver
    /\ SearchFinish("start_loading", <<>>, start_loading(app), <<>>, <<>>)
    /\ channel' = <<>>

\* The loader thread sends a store on the Sender start_loading returned.
ReceiveSend ==
    \E lines \in SentStores :
        /\ log_receiver
        /\ loading_status.tag = "Loading"
        /\ loading_status.current + Len(channel) < MaxSent
        /\ SearchFinish("send", lines, app, <<>>, last.recent)
        /\ channel' = Append(channel, lines)

\* App::check_for_loaded_logs
ReceiveCheck ==
    /\ SearchFinish("check_for_loaded_logs", channel, check_for_loaded_logs(app, channel), <<>>,
                    IF log_receiver THEN last.recent \o LinesOfAll(channel) ELSE last.recent)
    /\ channel' = IF log_receiver THEN <<>> ELSE channel

\* App::finish_loading
ReceiveFinish ==
    /\ log_receiver
    /\ SearchFinish("finish_loading", <<>>, finish_loading(app), <<>>, last.recent)
    /\ channel' = <<>>

ReceiveNextStep ==
    \/ ReceiveStart
    \/ ReceiveSend
    \/ ReceiveCheck
    \/ ReceiveFinish

SpecReceive == ReceiveInit /\ [][ReceiveNextStep]_vars

\* C28: after check_for_loaded_logs has drained the channel, the installed
\* store holds the lines of every store received so far, in the order of
\* arrival: the stores are merged and none is lost.
C28_ReceivedStoresMerged ==
    (last.op = "check_for_loaded_logs" /\ last.recent # <<>>) =>
        storage = Some(last.recent)

-----------------------------------------------------------------------------
(* SpecFilterSet: a FilterSet built with add_group, add_filter and          *)
(* set_enabled, and asked with FilterGroup::matches and FilterSet::matches. *)
(* The variable filters holds the set.                                      *)

MaxSetGroups == 2
MaxGroupFilters == 2

\* The texts of the filters, "a" and "b", and the lines asked: "a", "b",
\* "ab" and "c".
SetTexts == { <<97>>, <<98>> }
SetLines == { <<97>>, <<98>>, <<97, 98>>, <<99>> }

\* Filter::set_enabled
Filter_set_enabled(filter, enabled) == [filter EXCEPT !.enabled = enabled]

\* FilterGroup::new and FilterGroup::add_filter
FilterGroup_new == <<>>
FilterGroup_add_filter(group, filter) == Append(group, filter)

\* FilterSet::new and FilterSet::add_group
FilterSet_new == <<>>
FilterSet_add_group(groups, group) == Append(groups, group)

\* The set an operation leaves in the state.
WithFilters(groups) == [app EXCEPT !.filters = groups]

\* FilterSet::new()
FilterSetInit ==
    /\ AppIs([App_new EXCEPT !.filters = FilterSet_new])
    /\ channel = <<>>
    /\ last = [op |-> "new", arg |-> <<>>, ret |-> <<>>, before |-> app, recent |-> <<>>]
    /\ BmhIdle
    /\ FoldIdle
    /\ FlIdle

\* set.add_group(FilterGroup::new())
FilterSetAddGroup ==
    /\ Len(filters) < MaxSetGroups
    /\ SearchFinish("add_group", <<>>,
                    WithFilters(FilterSet_add_group(filters, FilterGroup_new)), <<>>, <<>>)
    /\ UNCHANGED channel

\* set.get_group_mut(g).add_filter(Filter::new(text))
FilterSetAddFilter ==
    \E g \in 1..Len(filters) : \E text \in SetTexts :
        /\ Len(filters[g]) < MaxGroupFilters
        /\ SearchFinish("add_filter", <<g - 1, text>>,
                        WithFilters([filters EXCEPT ![g] = FilterGroup_add_filter(@, Filter_new(text))]),
                        <<>>, <<>>)
        /\ UNCHANGED channel

\* set.get_group_mut(g).get_filter_mut(f).set_enabled(enabled)
FilterSetSetEnabled ==
    \E g \in 1..Len(filters) : \E f \in 1..Len(filters[g]) : \E enabled \in BOOLEAN :
        /\ filters[g][f].enabled # enabled
        /\ SearchFinish("set_enabled", <<g - 1, f - 1, enabled>>,
                        WithFilters([filters EXCEPT ![g][f] = Filter_set_enabled(@, enabled)]),
                        <<>>, <<>>)
        /\ UNCHANGED channel

\* set.get_group(g).matches(line)
FilterSetGroupMatches ==
    \E g \in 1..Len(filters) : \E line \in SetLines :
        /\ SearchFinish("group_matches", <<g - 1, line>>, app,
                        FilterGroup_matches(filters[g], line), <<>>)
        /\ UNCHANGED channel

\* set.matches(line)
FilterSetMatches ==
    \E line \in SetLines :
        /\ SearchFinish("set_matches", line, app, FilterSet_matches(filters, line), <<>>)
        /\ UNCHANGED channel

FilterSetNextStep ==
    \/ FilterSetAddGroup
    \/ FilterSetAddFilter
    \/ FilterSetSetEnabled
    \/ FilterSetGroupMatches
    \/ FilterSetMatches

SpecFilterSet == FilterSetInit /\ [][FilterSetNextStep]_vars

\* C29: FilterGroup::matches of a group with two or more enabled filters is
\* true only when every filter of the group matches the line.
C29_GroupNeedsEveryFilter ==
    last.op = "group_matches" =>
        LET group == At(filters, last.arg[1])
            line == last.arg[2]
            enabled == {f \in 1..Len(group) : group[f].enabled}
        IN (Cardinality(enabled) >= 2 /\ last.ret) =>
               \A f \in 1..Len(group) : Filter_matches(group[f], line)

\* A group matches a line when it has no filter or one of its filters
\* matches the line.
GroupAccepts(group, line) ==
    group = <<>> \/ \E f \in 1..Len(group) : Filter_matches(group[f], line)

-----------------------------------------------------------------------------
\* C31: with no session, or a session of zero matches, next_match and
\* prev_match change nothing: the ordinal, the position, the match cache,
\* selected_line, scroll_offset and horizontal_scroll stay as they were, and
\* current_match_display() stays None.
C31_NavigationNoOp ==
    (last.op \in {"next_match", "prev_match"} /\ total_matches(last.before) = 0) =>
        /\ app = last.before
        /\ current_match_display(last.before) = None
        /\ current_match_display(app) = None

\* next_match ran on a session of zero matches after the view was scrolled
\* to the right by hand.
C31_Witness ==
    /\ last.op = "next_match"
    /\ has_search(last.before)
    /\ total_matches(last.before) = 0
    /\ last.before.horizontal_scroll > 0

\* C32: in every state the App operations reach in which a session exists,
\* the session is what a computation from scratch over the current store and
\* view gives: total_matches is the number of matches of the query in the
\* view, every cached entry of a line of the view holds the spans of that
\* line, and with total_matches > 0 the current position is the match with
\* ordinal current_idx.
C32_SessionIsCurrent ==
    (has_search(app) /\ ~panicked) =>
        LET P == QueryBytes(search_query[1])
            M == MatchSet(app, P)
            cache == Session(app).match_cache
        IN /\ Session(app).total_matches = Cardinality(M)
           /\ \A k \in 1..Len(cache) :
                  cache[k][1] \in ViewIndices(app) =>
                      cache[k][2] = SpansOf(P, ViewLine(app, cache[k][1]))
           /\ Session(app).total_matches > 0 =>
                  /\ Session(app).current_position # None
                  /\ CurrentPair(app) \in M
                  /\ Rank(M, CurrentPair(app)) = Session(app).current_idx

\* C33: after every completed App operation that leaves a non-empty view,
\* selected_line < filtered_len(), also after a filter was added, toggled or
\* removed and after the store was replaced by a smaller one.
C33_CursorInView ==
    (filtered_indices # <<>> /\ ~panicked) => selected_line < filtered_len(app)

\* FilterGroup::remove_filter: the group it leaves.
FilterGroup_remove_filter(group, index) ==
    IF index < Len(group) THEN VecRemove(group, index) ELSE group

\* C34: a disabled filter has no effect on the lines shown: after a filter
\* is set to disabled, FilterSet::matches gives for every line what it gives
\* for the set with that filter removed from its group, also when the group
\* holds other enabled filters.
C34_DisabledIsRemoved ==
    (last.op = "set_enabled" /\ ~last.arg[3]) =>
        LET g == last.arg[1] + 1
            removed == [filters EXCEPT ![g] = FilterGroup_remove_filter(@, last.arg[2])]
        IN \A line \in SetLines :
               FilterSet_matches(filters, line) = FilterSet_matches(removed, line)

-----------------------------------------------------------------------------
(* VisualLineCache, model/visual_line_cache.rs.  The HashMap is the set of  *)
(* its entries [key, info], one for a key.  HashMap::keys() gives           *)
(* the keys in an order the program does not choose: `order`, a list of all *)
(* the keys there are, stands for it, and keys().take(n) is the first n     *)
(* cached keys of that list.  A text is the sequence of its chars.          *)

\* HashMap::keys, get, insert and the removal of a set of keys.
MapKeys(cache) == {entry.key : entry \in cache}
MapGet(cache, key) == (CHOOSE entry \in cache : entry.key = key).info
MapInsert(cache, key, info) ==
    {entry \in cache : entry.key # key} \cup {[key |-> key, info |-> info]}
MapRemoveAll(cache, keys) == {entry \in cache : entry.key \notin keys}

\* VisualLineCache::new
VisualLineCache_new(capacity, width) ==
    [cache |-> {}, capacity |-> capacity, viewport_width |-> width,
     wrap_mode |-> TRUE, total_visual_lines |-> 0]

\* VisualLineCache::len
VisualLineCache_len(vc) == Cardinality(vc.cache)

\* VisualLineCache::clear
VisualLineCache_clear(vc) == [vc EXCEPT !.cache = {}, !.total_visual_lines = 0]

\* VisualLineCache::calculate_visual_lines
calculate_visual_lines(vc, text) ==
    IF ~vc.wrap_mode \/ vc.viewport_width = 0 THEN 1
    ELSE Max((Len(text) + vc.viewport_width - 1) \div vc.viewport_width, 1)

\* self.cache.keys().take(n), as a set.
KeysTake(cache, order, n) ==
    LET cached == SelectSeq(order, LAMBDA k : k \in MapKeys(cache))
    IN {cached[i] : i \in 1..Min(n, Len(cached))}

\* `if self.cache.len() >= self.capacity { remove keys().take(capacity / 2) }`
EvictHalf(vc, order) ==
    IF VisualLineCache_len(vc) >= vc.capacity
    THEN [vc EXCEPT !.cache = MapRemoveAll(@, KeysTake(@, order, vc.capacity \div 2))]
    ELSE vc

\* VisualLineCache::get_or_calculate, with the text line_text_fn returns.
get_or_calculate(vc, line_idx, text, order) ==
    IF line_idx \in MapKeys(vc.cache) THEN [vc |-> vc, ret |-> MapGet(vc.cache, line_idx)]
    ELSE LET info == [offset |-> 0, count |-> calculate_visual_lines(vc, text)]
         IN [vc |-> [EvictHalf(vc, order) EXCEPT !.cache = MapInsert(@, line_idx, info)],
             ret |-> info]

\* `for &line_idx in line_indices.iter().skip(start_idx).take(end_idx -
\* start_idx)` of calculate_range, at position i of line_indices;
\* texts[line_idx + 1] is the text line_text_fn returns for line_idx.
RECURSIVE RangeLoop(_, _, _, _, _, _, _, _)
RangeLoop(vc, line_indices, i, end_idx, texts, current_offset, result, order) ==
    IF i >= end_idx \/ i >= Len(line_indices)
    THEN [vc |-> [vc EXCEPT !.total_visual_lines = current_offset], ret |-> result]
    ELSE LET line_idx == At(line_indices, i)
             hit == line_idx \in MapKeys(vc.cache)
             count == IF hit THEN MapGet(vc.cache, line_idx).count
                      ELSE calculate_visual_lines(vc, At(texts, line_idx))
             filled == IF hit THEN vc
                       ELSE [EvictHalf(vc, order) EXCEPT
                                !.cache = MapInsert(@, line_idx,
                                                    [offset |-> current_offset,
                                                     count |-> count])]
         IN RangeLoop(filled, line_indices, i + 1, end_idx, texts,
                      current_offset + count,
                      Append(result, <<line_idx, current_offset>>), order)

\* VisualLineCache::calculate_range, for start_idx <= end_idx.
calculate_range(vc, line_indices, start_idx, end_idx, texts, order) ==
    RangeLoop(vc, line_indices, start_idx, end_idx, texts, 0, <<>>, order)

-----------------------------------------------------------------------------
(* SpecVisual: one VisualLineCache of a capacity of 1 or more, asked for    *)
(* lines and ranges of lines.  The cache is the field `recent` of the       *)
(* history.                                                                 *)

MaxCapacity == 3
MaxVisualLine == 3

\* The line indices there are, the texts of the lines (line k has k chars)
\* and the view given to calculate_range.
VisualLines == 0..MaxVisualLine
VisualTexts == [k \in 1..(MaxVisualLine + 1) |-> [i \in 1..(k - 1) |-> 97]]
VisualView == [k \in 1..(MaxVisualLine + 1) |-> k - 1]

\* The orders HashMap::keys() can have.
KeyOrders ==
    {order \in [1..(MaxVisualLine + 1) -> VisualLines] :
         \A i, j \in 1..(MaxVisualLine + 1) : order[i] = order[j] => i = j}

\* The cache of the state.
TheVisualCache == last.recent

\* VisualLineCache::new(capacity, 2) with capacity >= 1
VisualInit ==
    /\ AppIs(App_new)
    /\ channel = <<>>
    /\ \E capacity \in 1..MaxCapacity :
           last = [op |-> "new", arg |-> capacity, ret |-> <<>>, before |-> app,
                   recent |-> VisualLineCache_new(capacity, 2)]
    /\ BmhIdle
    /\ FoldIdle
    /\ FlIdle

\* cache.get_or_calculate(line_idx, ..)
VisualGetOrCalculate ==
    \E line_idx \in VisualLines : \E order \in KeyOrders :
        LET got == get_or_calculate(TheVisualCache, line_idx, At(VisualTexts, line_idx), order)
        IN /\ SearchFinish("get_or_calculate", line_idx, app, got.ret, got.vc)
           /\ UNCHANGED channel

\* cache.calculate_range(view, start_idx, end_idx, ..)
VisualCalculateRange ==
    \E start_idx \in 0..Len(VisualView) : \E end_idx \in start_idx..Len(VisualView) :
    \E order \in KeyOrders :
        LET got == calculate_range(TheVisualCache, VisualView, start_idx, end_idx,
                                   VisualTexts, order)
        IN /\ SearchFinish("calculate_range", <<start_idx, end_idx>>, app, got.ret, got.vc)
           /\ UNCHANGED channel

\* cache.clear()
VisualClear ==
    /\ SearchFinish("clear", <<>>, app, <<>>, VisualLineCache_clear(TheVisualCache))
    /\ UNCHANGED channel

VisualNextStep ==
    \/ VisualGetOrCalculate
    \/ VisualCalculateRange
    \/ VisualClear

SpecVisual == VisualInit /\ [][VisualNextStep]_vars

\* C35: after any sequence of get_or_calculate and calculate_range on a
\* cache of capacity c >= 1, the cache holds at most c entries, for every
\* capacity, c = 1 included.
C35_VisualCacheBounded ==
    VisualLineCache_len(TheVisualCache) <= TheVisualCache.capacity

-----------------------------------------------------------------------------
\* C36: after load_logs(paths) returns on a loader made with total_files =
\* the number of paths, progress() is (that number, that number) and
\* is_complete() is true, whether or not paths were missing or failed to
\* load; the counter never exceeds total_files.
C36_ProgressReachesTotal ==
    last.op = "load_logs" =>
        /\ TheLoader.total_files = Len(ThePaths)
        /\ TheLoader.loaded_count <= TheLoader.total_files
        /\ LogLoader_progress(TheLoader) = <<Len(ThePaths), Len(ThePaths)>>
        /\ LogLoader_is_complete(TheLoader)

-----------------------------------------------------------------------------
\* The App after Esc, and after Esc twice.
AfterEsc(a) == handle_key(a, Key("Esc", 0))
AfterEscTwice(a) == AfterEsc(AfterEsc(a))

\* C37: in every state handle_key reaches from App::new(), Esc pressed at
\* most twice gives Mode::Normal with an empty input_buffer: FilterInput
\* goes to Filter and then to Normal, Command, SearchInput and Filter go to
\* Normal; Mode::DateRange is never reached.
C37_EscReachesNormal ==
    ~panicked =>
        /\ mode # "DateRange"
        /\ mode \in {"Normal", "Command", "SearchInput", "Filter"} =>
               /\ AfterEsc(app).mode = "Normal"
               /\ AfterEsc(app).input_buffer = <<>>
        /\ mode = "FilterInput" => AfterEsc(app).mode = "Filter"
        /\ AfterEscTwice(app).mode = "Normal"
        /\ AfterEscTwice(app).input_buffer = <<>>

\* Text was typed in FilterInput mode: Esc gives Filter, Esc again Normal.
C37_Witness ==
    /\ mode = "FilterInput"
    /\ input_buffer # <<>>
    /\ AfterEsc(app).mode = "Filter"
    /\ AfterEscTwice(app).mode = "Normal"

-----------------------------------------------------------------------------
\* The scan loop of find, as the list of the values `pos` has at the top of
\* its iterations.
RECURSIVE FindScan(_, _, _, _)
FindScan(m, text, pos, visited) ==
    IF pos >= Len(text) THEN visited
    ELSE IF WindowMatches(m, text, pos, m.pattern_len) THEN Append(visited, pos)
    ELSE FindScan(m, text, pos + m.skip_table[At(text, pos)], Append(visited, pos))

\* The scan loop of find_all, in the same way.
RECURSIVE FindAllScan(_, _, _, _)
FindAllScan(m, text, pos, visited) ==
    IF pos >= Len(text) THEN visited
    ELSE IF WindowMatches(m, text, pos, m.pattern_len)
         THEN FindAllScan(m, text, pos + 1, Append(visited, pos))
         ELSE FindAllScan(m, text, pos + m.skip_table[At(text, pos)],
                          Append(visited, pos))

\* The iterations of a scan go forward by 1 or more, and each one reads the
\* window text[pos - (pattern_len - 1) .. pos] inside the text.
ScanAdvancesInside(visited, pattern_len, text) ==
    /\ Len(visited) <= Len(text)
    /\ \A k \in 1..Len(visited) :
           /\ visited[k] - (pattern_len - 1) >= 0
           /\ visited[k] < Len(text)
    /\ \A k \in 1..(Len(visited) - 1) : visited[k + 1] >= visited[k] + 1

\* C38: for a non-empty pattern P, skip_table[b] is |P| - 1 - i for the
\* largest i < |P| - 1 with P[i] = b and |P| when there is none, so every
\* entry is in 1..|P|; every iteration of the scan loops of find and
\* find_all moves the position on by 1 or more, and both end on every text
\* without reading outside it.
C38_SkipTable ==
    m_pattern # <<>> =>
        LET m == BMHMatcher_new(m_pattern)
            n == Len(m_pattern)
            places(b) == {i \in 0..(n - 2) : At(m_pattern, i) = b}
            largest(b) == CHOOSE i \in places(b) : \A j \in places(b) : j <= i
        IN /\ \A b \in Byte :
                  /\ m.skip_table[b] = IF places(b) = {} THEN n ELSE n - 1 - largest(b)
                  /\ m.skip_table[b] \in 1..n
           /\ (n >= 2 /\ n <= Len(m_text)) =>
                  /\ ScanAdvancesInside(FindScan(m, m_text, n - 1, <<>>), n, m_text)
                  /\ ScanAdvancesInside(FindAllScan(m, m_text, n - 1, <<>>), n, m_text)

\* find_all has run with the pattern "aba", in which "a" stands at the last
\* place and before it, over a text on which the scan took a skip and found
\* a match.
C38_Witness ==
    /\ "find_all" \in m_done
    /\ m_pattern = <<97, 98, 97>>
    /\ m_text = <<99, 99, 97, 98, 97>>
    /\ r_find_all = << <<2, 5>> >>
    /\ Len(FindAllScan(BMHMatcher_new(m_pattern), m_text, 2, <<>>)) >= 2

=============================================================================
